---- MODULE Spec2Model ----
(***************************************************************************)
(* Cascade Splits: the split-configuration lifecycle, the distribution     *)
(* engine (execute_split) with its unclaimed-liability ledger, and the     *)
(* two-step protocol authority handover, as one state machine.             *)
(*                                                                         *)
(* Rust arrays are 0-based; the sequences below are 1-based, so slot i of  *)
(* the source is element i+1 here.                                         *)
(***************************************************************************)
EXTENDS Integers, Sequences, FiniteSets, TLC

VARIABLES protocol_config, split_config, vault_amount

vars == <<protocol_config, split_config, vault_amount>>

(***************************************************************************)
(* Program constants                                                       *)
(***************************************************************************)
PROTOCOL_FEE_BPS == 100
REQUIRED_SPLIT_TOTAL == 9900
MIN_RECIPIENTS == 1
MAX_RECIPIENTS == 20

(***************************************************************************)
(* Bounds of the model                                                     *)
(***************************************************************************)
\* largest pooled balance the vault is allowed to reach through deposits
MaxVault == 4
\* largest single deposit
MaxDeposit == 2
\* u64::MAX, scaled down to 16 bits
U64_MAX == 65535

(***************************************************************************)
(* Addresses.  Pubkey::default() is 0.                                     *)
(***************************************************************************)
DefaultPubkey == 0
Wallets == {1, 2}
\* the wallet that creates the split (the other one is the stranger)
SplitAuthorities == {1}
MINT == 7
OTHER_MINT == 8
UNIQUE_ID == 5
UPGRADE_AUTHORITY == 1

TOKEN_ID == "spl_token"
TOKEN_2022_ID == "spl_token_2022"
SYSTEM_ID == "system"

None == -1
Ok == "Ok"

\* get_associated_token_address_with_program_id: injective in (owner, mint)
ATA(owner, mint) == 100 + 10 * owner + mint
\* a token account that is not an associated token account
NonAta(owner) == 900 + owner
\* the split_config PDA and its vault
SplitConfigPda(authority, mint, unique_id) == 500 + authority
\* the canonical bump seed of that PDA (ctx.bumps.split_config), a u8
split_config_bump(authority, mint, unique_id) == 255 - ((authority + mint + unique_id) % 4)
OtherWallet(w) == IF w = 1 THEN 2 ELSE 1

(***************************************************************************)
(* Checked arithmetic                                                      *)
(***************************************************************************)
checked_add(a, b) == IF a + b > U64_MAX THEN None ELSE a + b
checked_sub(a, b) == IF b > a THEN None ELSE a - b

\* faulty variant of calculate_recipient_amount: the quotient is cut to its
\* low bits (`as u64`) in place of try_into
calculate_amount_wrapping(total, percentage_bps) ==
    ((total * percentage_bps) \div 10000) % (U64_MAX + 1)

\* faulty variant of calculate_recipient_amount: the share is rounded up
calculate_amount_rounding_up(total, percentage_bps) ==
    LET q == (total * percentage_bps + 9999) \div 10000
    IN  IF q > U64_MAX THEN None ELSE q

\* faulty variant of calculate_recipient_amount: the share is rounded to the
\* nearest unit
calculate_amount_rounding_nearest(total, percentage_bps) ==
    LET q == (total * percentage_bps + 5000) \div 10000
    IN  IF q > U64_MAX THEN None ELSE q

\* (total as u128 * bps as u128) / 10000, try_into u64
calculate_recipient_amount(total, percentage_bps) ==
    LET q == (total * percentage_bps) \div 10000
    IN  IF q > U64_MAX THEN None ELSE q

(***************************************************************************)
(* Records                                                                 *)
(***************************************************************************)
\* Recipient::default() and UnclaimedAmount::default()
RecipientDefault == [address |-> DefaultPubkey, percentage_bps |-> 0]
UnclaimedAmountDefault == [recipient |-> DefaultPubkey, amount |-> 0, timestamp |-> 0]

\* an account of the ledger as a handler sees it (AccountInfo plus, when the
\* data deserializes as a token account, its owner, mint and state)
TokenAccount(key, tok_owner, tok_mint, frozen, writable) ==
    [key |-> key, is_writable |-> writable, data_is_empty |-> FALSE,
     owner |-> TOKEN_ID, is_token |-> TRUE,
     tok_owner |-> tok_owner, tok_mint |-> tok_mint, frozen |-> frozen]
EmptyAccount(key) ==
    [key |-> key, is_writable |-> TRUE, data_is_empty |-> TRUE,
     owner |-> SYSTEM_ID, is_token |-> FALSE,
     tok_owner |-> DefaultPubkey, tok_mint |-> DefaultPubkey, frozen |-> FALSE]
\* non-empty data that is no token account (owned by program `prog`)
DataAccount(key, prog) ==
    [key |-> key, is_writable |-> TRUE, data_is_empty |-> FALSE,
     owner |-> prog, is_token |-> FALSE,
     tok_owner |-> DefaultPubkey, tok_mint |-> DefaultPubkey, frozen |-> FALSE]

\* the zeroed ProtocolConfig / SplitConfig account (not yet created)
ProtocolConfigZero ==
    [initialized |-> FALSE, authority |-> DefaultPubkey,
     pending_authority |-> DefaultPubkey, fee_wallet |-> DefaultPubkey]
SplitConfigZero ==
    [initialized |-> FALSE, version |-> 0, authority |-> DefaultPubkey,
     mint |-> DefaultPubkey, vault |-> DefaultPubkey, unique_id |-> DefaultPubkey,
     bump |-> 0, recipient_count |-> 0,
     recipients |-> [i \in 1..MAX_RECIPIENTS |-> RecipientDefault],
     unclaimed_amounts |-> [i \in 1..MAX_RECIPIENTS |-> UnclaimedAmountDefault],
     protocol_unclaimed |-> 0, last_activity |-> 0, rent_payer |-> DefaultPubkey]

\* SplitExecuted with nothing in it
NoEvent ==
    [total_amount |-> 0, recipients_distributed |-> 0, protocol_fee |-> 0,
     held_as_unclaimed |-> 0, unclaimed_cleared |-> 0,
     protocol_unclaimed_cleared |-> 0, executor |-> DefaultPubkey, timestamp |-> 0]

(***************************************************************************)
(* utils.rs                                                                *)
(***************************************************************************)
\* faulty variant of is_account_frozen: data that is no token account counts
\* as frozen
is_account_frozen_or_unreadable(account_info) ==
    IF account_info.is_token THEN account_info.frozen ELSE TRUE

\* TokenAccount::try_deserialize(..).map(|a| a.state == Frozen).unwrap_or(false)
is_account_frozen(account_info) ==
    IF account_info.is_token THEN account_info.frozen ELSE FALSE

\* token_interface::transfer_checked from the vault: the ledger refuses a
\* destination it may not write
transfer_checked(to, amount) ==
    IF to.is_writable THEN Ok ELSE "TransferFailed"

\* one entry of the log of transfers a call has issued
Transfer(kind, idx, to, amount) ==
    [kind |-> kind, idx |-> idx, key |-> to.key, tok_owner |-> to.tok_owner,
     tok_mint |-> to.tok_mint, amount |-> amount]

\* faulty variant of validate_and_send_to_recipient: the recorded owner of the
\* token account is not compared with the recipient
send_without_owner_check(recipient_ata_info, recipient, amount, mint) ==
    IF recipient_ata_info.data_is_empty THEN "RecipientATADoesNotExist"
    ELSE IF recipient_ata_info.key # ATA(recipient.address, mint) THEN "RecipientATAInvalid"
    ELSE IF ~(recipient_ata_info.owner = TOKEN_ID \/ recipient_ata_info.owner = TOKEN_2022_ID)
         THEN "InvalidTokenProgram"
    ELSE IF ~recipient_ata_info.is_token THEN "RecipientATAInvalid"
    ELSE IF recipient_ata_info.tok_mint # mint THEN "RecipientATAWrongMint"
    ELSE transfer_checked(recipient_ata_info, amount)

validate_and_send_to_recipient(recipient_ata_info, recipient, amount, mint) ==
    IF recipient_ata_info.data_is_empty THEN "RecipientATADoesNotExist"
    ELSE IF recipient_ata_info.key # ATA(recipient.address, mint) THEN "RecipientATAInvalid"
    ELSE IF ~(recipient_ata_info.owner = TOKEN_ID \/ recipient_ata_info.owner = TOKEN_2022_ID)
         THEN "InvalidTokenProgram"
    ELSE IF ~recipient_ata_info.is_token THEN "RecipientATAInvalid"
    ELSE IF recipient_ata_info.tok_owner # recipient.address THEN "RecipientATAWrongOwner"
    ELSE IF recipient_ata_info.tok_mint # mint THEN "RecipientATAWrongMint"
    ELSE transfer_checked(recipient_ata_info, amount)

validate_recipient_ata(ata_info, recipient_address, mint) ==
    IF ata_info.data_is_empty THEN "RecipientATADoesNotExist"
    ELSE IF ~(ata_info.owner = TOKEN_ID \/ ata_info.owner = TOKEN_2022_ID)
         THEN "InvalidTokenProgram"
    ELSE IF ~ata_info.is_token THEN "RecipientATAInvalid"
    ELSE IF ata_info.tok_owner # recipient_address THEN "RecipientATAWrongOwner"
    ELSE IF ata_info.tok_mint # mint THEN "RecipientATAWrongMint"
    ELSE Ok

(***************************************************************************)
(* instructions/execute_split.rs                                           *)
(***************************************************************************)
\* faulty variant of total_unclaimed: take_while in place of filter, the sum
\* stops at the first entry without a liability
RECURSIVE total_unclaimed_take_while(_, _, _)
total_unclaimed_take_while(unclaimed_amounts, i, acc) ==
    IF acc = None \/ i > Len(unclaimed_amounts) THEN acc
    ELSE IF unclaimed_amounts[i].amount > 0
         THEN total_unclaimed_take_while(unclaimed_amounts, i + 1,
                                         checked_add(acc, unclaimed_amounts[i].amount))
    ELSE acc

\* unclaimed_amounts.iter().filter(|u| u.amount > 0).try_fold(0, checked_add)
RECURSIVE total_unclaimed(_, _, _)
total_unclaimed(unclaimed_amounts, i, acc) ==
    IF acc = None \/ i > Len(unclaimed_amounts) THEN acc
    ELSE total_unclaimed(unclaimed_amounts, i + 1,
            IF unclaimed_amounts[i].amount > 0
            THEN checked_add(acc, unclaimed_amounts[i].amount)
            ELSE acc)

\* faulty variant of available_to_split: the recipients' liabilities are not
\* reserved
available_without_liabilities(vault_balance, total, protocol_unclaimed) ==
    checked_sub(vault_balance, protocol_unclaimed)

\* faulty variant of available_to_split: protocol_unclaimed is not reserved
available_without_protocol_unclaimed(vault_balance, total, protocol_unclaimed) ==
    checked_sub(vault_balance, total)

\* faulty variant of available_to_split: a call with nothing to distribute
\* is an error
available_required_positive(vault_balance, total, protocol_unclaimed) ==
    LET rest == checked_sub(vault_balance, total)
        available == IF rest = None THEN None ELSE checked_sub(rest, protocol_unclaimed)
    IN  IF available = 0 THEN None ELSE available

\* vault_balance.checked_sub(total_unclaimed)?.checked_sub(protocol_unclaimed)?
available_to_split(vault_balance, total, protocol_unclaimed) ==
    LET rest == checked_sub(vault_balance, total)
    IN  IF rest = None THEN None ELSE checked_sub(rest, protocol_unclaimed)

\* faulty variant of hold_as_unclaimed: the share replaces the liability
hold_overwriting(unclaimed, recipient, amount, now) ==
    [recipient |-> recipient.address, amount |-> amount, timestamp |-> now]

\* the hold branch of the distribution loop: accrue to the local copy
hold_as_unclaimed(unclaimed, recipient, amount, now) ==
    LET sum == checked_add(unclaimed.amount, amount)
    IN  [recipient |-> recipient.address, amount |-> sum, timestamp |-> now]

\* faulty variant of distribute: a share of 0 is treated like any other
RECURSIVE distribute_without_skip(_, _, _, _, _, _, _)
distribute_without_skip(i, st, recipients, remaining_accounts, available, mint, now) ==
    IF st.err # Ok \/ i > Len(recipients) THEN st
    ELSE
      LET recipient == recipients[i]
          amount == calculate_recipient_amount(available, recipient.percentage_bps)
          ata == remaining_accounts[i]
      IN
      IF amount = None THEN [st EXCEPT !.err = "MathOverflow"]
      ELSE IF ata.data_is_empty \/ is_account_frozen(ata)
      THEN
        LET held == hold_as_unclaimed(st.unclaimed_amounts[i], recipient, amount, now)
            total_held == checked_add(st.held_as_unclaimed, amount)
        IN  IF held.amount = None \/ total_held = None
            THEN [st EXCEPT !.err = "MathOverflow"]
            ELSE distribute_without_skip(i + 1,
                    [st EXCEPT !.unclaimed_amounts[i] = held,
                               !.held_as_unclaimed = total_held],
                    recipients, remaining_accounts, available, mint, now)
      ELSE
        LET sent == validate_and_send_to_recipient(ata, recipient, amount, mint)
            total_sent == checked_add(st.distributed, amount)
        IN  IF sent # Ok THEN [st EXCEPT !.err = sent]
            ELSE IF total_sent = None THEN [st EXCEPT !.err = "MathOverflow"]
            ELSE distribute_without_skip(i + 1,
                    [st EXCEPT !.distributed = total_sent,
                               !.transfers = Append(@, Transfer("share", i, ata, amount))],
                    recipients, remaining_accounts, available, mint, now)

\* Phase 2, for i in 0..recipient_count, entered only when available_to_split > 0
\* st = [err, unclaimed_amounts, distributed, held_as_unclaimed, transfers]
RECURSIVE distribute(_, _, _, _, _, _, _)
distribute(i, st, recipients, remaining_accounts, available, mint, now) ==
    IF st.err # Ok \/ i > Len(recipients) THEN st
    ELSE
      LET recipient == recipients[i]
          amount == calculate_recipient_amount(available, recipient.percentage_bps)
          ata == remaining_accounts[i]
      IN
      IF amount = None THEN [st EXCEPT !.err = "MathOverflow"]
      ELSE IF amount = 0
      THEN distribute(i + 1, st, recipients, remaining_accounts, available, mint, now)
      ELSE IF ata.data_is_empty \/ is_account_frozen(ata)
      THEN
        LET held == hold_as_unclaimed(st.unclaimed_amounts[i], recipient, amount, now)
            total_held == checked_add(st.held_as_unclaimed, amount)
        IN  IF held.amount = None \/ total_held = None
            THEN [st EXCEPT !.err = "MathOverflow"]
            ELSE distribute(i + 1,
                    [st EXCEPT !.unclaimed_amounts[i] = held,
                               !.held_as_unclaimed = total_held],
                    recipients, remaining_accounts, available, mint, now)
      ELSE
        LET sent == validate_and_send_to_recipient(ata, recipient, amount, mint)
            total_sent == checked_add(st.distributed, amount)
        IN  IF sent # Ok THEN [st EXCEPT !.err = sent]
            ELSE IF total_sent = None THEN [st EXCEPT !.err = "MathOverflow"]
            ELSE distribute(i + 1,
                    [st EXCEPT !.distributed = total_sent,
                               !.transfers = Append(@, Transfer("share", i, ata, amount))],
                    recipients, remaining_accounts, available, mint, now)

\* faulty variant of protocol_fee_of: the held shares are not deducted
protocol_fee_without_held(available, distributed, held_as_unclaimed) ==
    checked_sub(available, distributed)

\* available_to_split - distributed - held_as_unclaimed
protocol_fee_of(available, distributed, held_as_unclaimed) ==
    LET rest == checked_sub(available, distributed)
    IN  IF rest = None THEN None ELSE checked_sub(rest, held_as_unclaimed)

\* faulty variant of pay_protocol_fee: the address of the fee account is not
\* compared with the derived address
pay_protocol_fee_without_address_check(protocol_fee, protocol_ata, protocol_fee_wallet, mint, protocol_unclaimed) ==
    LET res(e, pu, sent, tr) ==
            [err |-> e, protocol_unclaimed |-> pu, protocol_fee_sent |-> sent, transfers |-> tr]
        fail(e) == res(e, protocol_unclaimed, 0, <<>>)
    IN
    IF ~(protocol_fee > 0) THEN res(Ok, protocol_unclaimed, 0, <<>>)
    ELSE IF ~protocol_ata.is_writable THEN fail("InvalidProtocolFeeRecipient")
    ELSE IF protocol_ata.data_is_empty \/ is_account_frozen(protocol_ata)
    THEN LET pu == checked_add(protocol_unclaimed, protocol_fee)
         IN  IF pu = None THEN fail("MathOverflow") ELSE res(Ok, pu, 0, <<>>)
    ELSE IF \/ ~(protocol_ata.owner = TOKEN_ID \/ protocol_ata.owner = TOKEN_2022_ID)
            \/ ~protocol_ata.is_token
            \/ protocol_ata.tok_owner # protocol_fee_wallet
            \/ protocol_ata.tok_mint # mint
         THEN fail("InvalidProtocolFeeRecipient")
    ELSE res(Ok, protocol_unclaimed, protocol_fee,
             <<Transfer("fee", 0, protocol_ata, protocol_fee)>>)

\* faulty variant of pay_protocol_fee: a fee account that is missing or frozen
\* is rejected like any other invalid one
pay_protocol_fee_requiring_account(protocol_fee, protocol_ata, protocol_fee_wallet, mint, protocol_unclaimed) ==
    LET res(e, sent, tr) ==
            [err |-> e, protocol_unclaimed |-> protocol_unclaimed,
             protocol_fee_sent |-> sent, transfers |-> tr]
    IN
    IF ~(protocol_fee > 0) THEN res(Ok, 0, <<>>)
    ELSE IF \/ protocol_ata.key # ATA(protocol_fee_wallet, mint)
            \/ ~protocol_ata.is_writable
            \/ ~(protocol_ata.owner = TOKEN_ID \/ protocol_ata.owner = TOKEN_2022_ID)
            \/ ~protocol_ata.is_token
            \/ protocol_ata.frozen
            \/ protocol_ata.tok_owner # protocol_fee_wallet
            \/ protocol_ata.tok_mint # mint
         THEN res("InvalidProtocolFeeRecipient", 0, <<>>)
    ELSE res(Ok, protocol_fee, <<Transfer("fee", 0, protocol_ata, protocol_fee)>>)

\* the "if protocol_fee > 0" block
\* result = [err, protocol_unclaimed, protocol_fee_sent, transfers]
pay_protocol_fee(protocol_fee, protocol_ata, protocol_fee_wallet, mint, protocol_unclaimed) ==
    LET res(e, pu, sent, tr) ==
            [err |-> e, protocol_unclaimed |-> pu, protocol_fee_sent |-> sent, transfers |-> tr]
        fail(e) == res(e, protocol_unclaimed, 0, <<>>)
    IN
    IF ~(protocol_fee > 0) THEN res(Ok, protocol_unclaimed, 0, <<>>)
    ELSE IF protocol_ata.key # ATA(protocol_fee_wallet, mint) THEN fail("InvalidProtocolFeeRecipient")
    ELSE IF ~protocol_ata.is_writable THEN fail("InvalidProtocolFeeRecipient")
    ELSE IF protocol_ata.data_is_empty \/ is_account_frozen(protocol_ata)
    THEN LET pu == checked_add(protocol_unclaimed, protocol_fee)
         IN  IF pu = None THEN fail("MathOverflow") ELSE res(Ok, pu, 0, <<>>)
    ELSE IF ~(protocol_ata.owner = TOKEN_ID \/ protocol_ata.owner = TOKEN_2022_ID)
         THEN fail("InvalidProtocolFeeRecipient")
    ELSE IF ~protocol_ata.is_token THEN fail("InvalidProtocolFeeRecipient")
    ELSE IF protocol_ata.tok_owner # protocol_fee_wallet THEN fail("InvalidProtocolFeeRecipient")
    ELSE IF protocol_ata.tok_mint # mint THEN fail("InvalidProtocolFeeRecipient")
    ELSE IF transfer_checked(protocol_ata, protocol_fee) # Ok
         THEN fail(transfer_checked(protocol_ata, protocol_fee))
    ELSE res(Ok, protocol_unclaimed, protocol_fee,
             <<Transfer("fee", 0, protocol_ata, protocol_fee)>>)

\* faulty variant of heal_recipients: the liability is paid out and kept
RECURSIVE heal_recipients_keeping(_, _, _, _, _)
heal_recipients_keeping(i, st, recipients, remaining_accounts, mint) ==
    IF st.err # Ok \/ i > Len(recipients) THEN st
    ELSE
      LET unclaimed_amount == st.unclaimed_amounts[i].amount
          ata == remaining_accounts[i]
      IN
      IF ~(unclaimed_amount > 0) \/ ata.data_is_empty \/ is_account_frozen(ata)
      THEN heal_recipients_keeping(i + 1, st, recipients, remaining_accounts, mint)
      ELSE
        LET sent == validate_and_send_to_recipient(ata, recipients[i], unclaimed_amount, mint)
            cleared == checked_add(st.unclaimed_cleared, unclaimed_amount)
        IN  IF sent # Ok THEN [st EXCEPT !.err = sent]
            ELSE IF cleared = None THEN [st EXCEPT !.err = "MathOverflow"]
            ELSE heal_recipients_keeping(i + 1,
                    [st EXCEPT !.unclaimed_cleared = cleared,
                               !.transfers = Append(@, Transfer("heal", i, ata, unclaimed_amount))],
                    recipients, remaining_accounts, mint)

\* faulty variant of heal_recipients: a present account that fails validation
\* is passed over like a missing one
RECURSIVE heal_recipients_skipping_invalid(_, _, _, _, _)
heal_recipients_skipping_invalid(i, st, recipients, remaining_accounts, mint) ==
    IF st.err # Ok \/ i > Len(recipients) THEN st
    ELSE
      LET unclaimed_amount == st.unclaimed_amounts[i].amount
          ata == remaining_accounts[i]
      IN
      IF ~(unclaimed_amount > 0)
      THEN heal_recipients_skipping_invalid(i + 1, st, recipients, remaining_accounts, mint)
      ELSE IF ata.data_is_empty \/ is_account_frozen(ata)
      THEN heal_recipients_skipping_invalid(i + 1, st, recipients, remaining_accounts, mint)
      ELSE
        LET sent == validate_and_send_to_recipient(ata, recipients[i], unclaimed_amount, mint)
            cleared == checked_add(st.unclaimed_cleared, unclaimed_amount)
        IN  IF sent # Ok
            THEN heal_recipients_skipping_invalid(i + 1, st, recipients, remaining_accounts, mint)
            ELSE IF cleared = None THEN [st EXCEPT !.err = "MathOverflow"]
            ELSE heal_recipients_skipping_invalid(i + 1,
                    [st EXCEPT !.unclaimed_amounts[i].amount = 0,
                               !.unclaimed_cleared = cleared,
                               !.transfers = Append(@, Transfer("heal", i, ata, unclaimed_amount))],
                    recipients, remaining_accounts, mint)

\* Self-healing of recipient liabilities, for i in 0..recipient_count
\* st = [err, unclaimed_amounts, unclaimed_cleared, transfers]
RECURSIVE heal_recipients(_, _, _, _, _)
heal_recipients(i, st, recipients, remaining_accounts, mint) ==
    IF st.err # Ok \/ i > Len(recipients) THEN st
    ELSE
      LET unclaimed_amount == st.unclaimed_amounts[i].amount
          ata == remaining_accounts[i]
      IN
      IF ~(unclaimed_amount > 0)
      THEN heal_recipients(i + 1, st, recipients, remaining_accounts, mint)
      ELSE IF ata.data_is_empty \/ is_account_frozen(ata)
      THEN heal_recipients(i + 1, st, recipients, remaining_accounts, mint)
      ELSE
        LET sent == validate_and_send_to_recipient(ata, recipients[i], unclaimed_amount, mint)
            cleared == checked_add(st.unclaimed_cleared, unclaimed_amount)
        IN  IF sent # Ok THEN [st EXCEPT !.err = sent]
            ELSE IF cleared = None THEN [st EXCEPT !.err = "MathOverflow"]
            ELSE heal_recipients(i + 1,
                    [st EXCEPT !.unclaimed_amounts[i].amount = 0,
                               !.unclaimed_cleared = cleared,
                               !.transfers = Append(@, Transfer("heal", i, ata, unclaimed_amount))],
                    recipients, remaining_accounts, mint)

\* faulty variant of heal_protocol: protocol_unclaimed is paid out and kept
heal_protocol_keeping(protocol_unclaimed, protocol_ata, protocol_fee_wallet, mint) ==
    LET res(e, cleared, tr) ==
            [err |-> e, protocol_unclaimed |-> protocol_unclaimed,
             protocol_unclaimed_cleared |-> cleared, transfers |-> tr]
    IN
    IF \/ ~(protocol_unclaimed > 0)
       \/ protocol_ata.data_is_empty \/ is_account_frozen(protocol_ata)
       \/ ~(protocol_ata.owner = TOKEN_ID \/ protocol_ata.owner = TOKEN_2022_ID)
       \/ ~protocol_ata.is_token
       \/ ~(protocol_ata.tok_owner = protocol_fee_wallet /\ protocol_ata.tok_mint = mint)
    THEN res(Ok, 0, <<>>)
    ELSE IF transfer_checked(protocol_ata, protocol_unclaimed) # Ok
         THEN res(transfer_checked(protocol_ata, protocol_unclaimed), 0, <<>>)
    ELSE res(Ok, protocol_unclaimed,
             <<Transfer("protocol_heal", 0, protocol_ata, protocol_unclaimed)>>)

\* faulty variant of heal_protocol: the recorded owner of the token account
\* is not compared with the fee wallet
heal_protocol_to_any_owner(protocol_unclaimed, protocol_ata, protocol_fee_wallet, mint) ==
    LET res(e, pu, cleared, tr) ==
            [err |-> e, protocol_unclaimed |-> pu,
             protocol_unclaimed_cleared |-> cleared, transfers |-> tr]
        skip == res(Ok, protocol_unclaimed, 0, <<>>)
    IN
    IF ~(protocol_unclaimed > 0) THEN skip
    ELSE IF ~(~protocol_ata.data_is_empty /\ ~is_account_frozen(protocol_ata)) THEN skip
    ELSE IF ~(protocol_ata.owner = TOKEN_ID \/ protocol_ata.owner = TOKEN_2022_ID) THEN skip
    ELSE IF ~protocol_ata.is_token THEN skip
    ELSE IF ~(protocol_ata.tok_mint = mint) THEN skip
    ELSE IF transfer_checked(protocol_ata, protocol_unclaimed) # Ok
         THEN res(transfer_checked(protocol_ata, protocol_unclaimed), protocol_unclaimed, 0, <<>>)
    ELSE res(Ok, 0, protocol_unclaimed,
             <<Transfer("protocol_heal", 0, protocol_ata, protocol_unclaimed)>>)

\* Self-healing of the protocol liability
\* result = [err, protocol_unclaimed, protocol_unclaimed_cleared, transfers]
heal_protocol(protocol_unclaimed, protocol_ata, protocol_fee_wallet, mint) ==
    LET res(e, pu, cleared, tr) ==
            [err |-> e, protocol_unclaimed |-> pu,
             protocol_unclaimed_cleared |-> cleared, transfers |-> tr]
        skip == res(Ok, protocol_unclaimed, 0, <<>>)
    IN
    IF ~(protocol_unclaimed > 0) THEN skip
    ELSE IF ~(~protocol_ata.data_is_empty /\ ~is_account_frozen(protocol_ata)) THEN skip
    ELSE IF ~(protocol_ata.owner = TOKEN_ID \/ protocol_ata.owner = TOKEN_2022_ID) THEN skip
    ELSE IF ~protocol_ata.is_token THEN skip
    ELSE IF ~(protocol_ata.tok_owner = protocol_fee_wallet /\ protocol_ata.tok_mint = mint)
         THEN skip
    ELSE IF transfer_checked(protocol_ata, protocol_unclaimed) # Ok
         THEN res(transfer_checked(protocol_ata, protocol_unclaimed), protocol_unclaimed, 0, <<>>)
    ELSE res(Ok, 0, protocol_unclaimed,
             <<Transfer("protocol_heal", 0, protocol_ata, protocol_unclaimed)>>)

\* faulty variant of write_back: protocol_unclaimed of the record is left as
\* it was at call start
write_back_without_protocol_unclaimed(config, unclaimed_amounts, protocol_unclaimed, now) ==
    [config EXCEPT
        !.unclaimed_amounts =
            [i \in 1..MAX_RECIPIENTS |->
                IF i <= Len(unclaimed_amounts) THEN unclaimed_amounts[i] ELSE @[i]],
        !.last_activity = now]

\* faulty variant of write_back: every entry written back is stamped with the
\* time of the call
write_back_stamping_all(config, unclaimed_amounts, protocol_unclaimed, now) ==
    [config EXCEPT
        !.unclaimed_amounts =
            [i \in 1..MAX_RECIPIENTS |->
                IF i <= Len(unclaimed_amounts)
                THEN [unclaimed_amounts[i] EXCEPT !.timestamp = now]
                ELSE @[i]],
        !.protocol_unclaimed = protocol_unclaimed,
        !.last_activity = now]

\* Phase 3: config.unclaimed_amounts[i] = *unclaimed for the local copies
write_back(config, unclaimed_amounts, protocol_unclaimed, now) ==
    [config EXCEPT
        !.unclaimed_amounts =
            [i \in 1..MAX_RECIPIENTS |->
                IF i <= Len(unclaimed_amounts) THEN unclaimed_amounts[i] ELSE @[i]],
        !.protocol_unclaimed = protocol_unclaimed,
        !.last_activity = now]

\* faulty variant of has_remaining_accounts: one reference per recipient is
\* taken to be enough
has_accounts_for_recipients(remaining_accounts, count) ==
    Len(remaining_accounts) >= count

\* ctx.remaining_accounts.len() > count
has_remaining_accounts(remaining_accounts, count) ==
    Len(remaining_accounts) > count

\* faulty variant of execute_split_accounts: the executor must be the split's
\* authority
execute_split_accounts_with_authority(config, pc, executor) ==
    IF ~config.initialized \/ ~pc.initialized THEN "AccountNotInitialized"
    ELSE IF executor # config.authority THEN "Unauthorized"
    ELSE Ok

\* the effects a call has had, in the order they happened: a transfer out of
\* the vault is named by its kind, the write to the record is "write"
steps_of(transfers) == [i \in 1..Len(transfers) |-> transfers[i].kind]

\* faulty variant of commit: the record is written before the transfers
commit_before_transfers(steps) == <<"write">> \o steps

\* Phase 3 follows the last transfer: load_mut and write the local copies back
commit(steps) == Append(steps, "write")

\* the constraints of the ExecuteSplit accounts: split_config and
\* protocol_config exist; executor is an unchecked AccountInfo, no signer
execute_split_accounts(config, pc, executor) ==
    IF ~config.initialized \/ ~pc.initialized THEN "AccountNotInitialized" ELSE Ok

\* handler: result = [err, config, transfers, event, steps].  config and
\* transfers are what the call leaves behind (nothing when it fails, the host
\* undoing it); steps is what the handler had done when it returned.
execute_split(config, vault_balance, pc, remaining_accounts, executor, now) ==
    LET fail_after(e, done) ==
            [err |-> e, config |-> config, transfers |-> <<>>, event |-> NoEvent,
             steps |-> steps_of(done)]
        fail(e) == fail_after(e, <<>>)
        count == config.recipient_count
    IN
    IF execute_split_accounts(config, pc, executor) # Ok
    THEN fail(execute_split_accounts(config, pc, executor))
    ELSE IF ~has_remaining_accounts(remaining_accounts, count)
         THEN fail("InsufficientRemainingAccounts")
    ELSE
    LET protocol_fee_wallet == pc.fee_wallet
        mint == config.mint
        recipients == SubSeq(config.recipients, 1, count)
        unclaimed_amounts == SubSeq(config.unclaimed_amounts, 1, count)
        protocol_unclaimed == config.protocol_unclaimed
        total == total_unclaimed(unclaimed_amounts, 1, 0)
    IN
    IF total = None THEN fail("MathOverflow")
    ELSE
    LET available == available_to_split(vault_balance, total, protocol_unclaimed) IN
    IF available = None THEN fail("MathUnderflow")
    ELSE
    LET st0 == [err |-> Ok, unclaimed_amounts |-> unclaimed_amounts, distributed |-> 0,
                held_as_unclaimed |-> 0, transfers |-> <<>>]
        d == IF available > 0
             THEN distribute(1, st0, recipients, remaining_accounts, available, mint, now)
             ELSE st0
    IN
    IF d.err # Ok THEN fail_after(d.err, d.transfers)
    ELSE
    LET protocol_fee == protocol_fee_of(available, d.distributed, d.held_as_unclaimed) IN
    IF protocol_fee = None THEN fail_after("MathUnderflow", d.transfers)
    ELSE
    LET protocol_ata == remaining_accounts[Len(remaining_accounts)]
        f == pay_protocol_fee(protocol_fee, protocol_ata, protocol_fee_wallet, mint,
                              protocol_unclaimed)
    IN
    IF f.err # Ok THEN fail_after(f.err, d.transfers)
    ELSE
    LET h == heal_recipients(1,
                [err |-> Ok, unclaimed_amounts |-> d.unclaimed_amounts,
                 unclaimed_cleared |-> 0, transfers |-> <<>>],
                recipients, remaining_accounts, mint)
    IN
    IF h.err # Ok THEN fail_after(h.err, d.transfers \o f.transfers \o h.transfers)
    ELSE
    LET p == heal_protocol(f.protocol_unclaimed, protocol_ata, protocol_fee_wallet, mint) IN
    IF p.err # Ok
    THEN fail_after(p.err, d.transfers \o f.transfers \o h.transfers)
    ELSE
      [err |-> Ok,
       config |-> write_back(config, h.unclaimed_amounts, p.protocol_unclaimed, now),
       transfers |-> d.transfers \o f.transfers \o h.transfers \o p.transfers,
       event |-> [total_amount |-> vault_balance,
                  recipients_distributed |-> d.distributed,
                  protocol_fee |-> f.protocol_fee_sent,
                  held_as_unclaimed |-> d.held_as_unclaimed,
                  unclaimed_cleared |-> h.unclaimed_cleared,
                  protocol_unclaimed_cleared |-> p.protocol_unclaimed_cleared,
                  executor |-> executor,
                  timestamp |-> now],
       steps |-> commit(steps_of(d.transfers \o f.transfers \o h.transfers \o p.transfers))]

(***************************************************************************)
(* instructions/create_split_config.rs, update_split_config.rs,            *)
(* close_split_config.rs                                                   *)
(***************************************************************************)
\* faulty variant of total_bps: the sum is kept in 16 bits and wraps
RECURSIVE total_bps_u16(_, _)
total_bps_u16(recipients, i) ==
    IF i > Len(recipients) THEN 0
    ELSE (recipients[i].percentage_bps + total_bps_u16(recipients, i + 1)) % 65536

\* recipients.iter().try_fold(0u32, |acc, r| acc.checked_add(r.percentage_bps as u32))
RECURSIVE total_bps(_, _)
total_bps(recipients, i) ==
    IF i > Len(recipients) THEN 0
    ELSE recipients[i].percentage_bps + total_bps(recipients, i + 1)

\* faulty variant of validate_each_recipient: an address is compared with the
\* next entry only
RECURSIVE validate_each_against_next(_, _)
validate_each_against_next(recipients, i) ==
    IF i > Len(recipients) THEN Ok
    ELSE IF recipients[i].address = DefaultPubkey THEN "ZeroAddress"
    ELSE IF ~(recipients[i].percentage_bps > 0) THEN "ZeroPercentage"
    ELSE IF i < Len(recipients) /\ recipients[i].address = recipients[i + 1].address
         THEN "DuplicateRecipient"
    ELSE validate_each_against_next(recipients, i + 1)

\* faulty variant of validate_each_recipient: the share of an entry is
\* examined before its address
RECURSIVE validate_each_recipient_share_first(_, _)
validate_each_recipient_share_first(recipients, i) ==
    IF i > Len(recipients) THEN Ok
    ELSE IF ~(recipients[i].percentage_bps > 0) THEN "ZeroPercentage"
    ELSE IF recipients[i].address = DefaultPubkey THEN "ZeroAddress"
    ELSE IF \E j \in (i + 1)..Len(recipients) : recipients[i].address = recipients[j].address
         THEN "DuplicateRecipient"
    ELSE validate_each_recipient_share_first(recipients, i + 1)

\* for (i, recipient) in recipients.iter().enumerate(): zero address, zero
\* percentage, duplicate among the later entries
RECURSIVE validate_each_recipient(_, _)
validate_each_recipient(recipients, i) ==
    IF i > Len(recipients) THEN Ok
    ELSE IF recipients[i].address = DefaultPubkey THEN "ZeroAddress"
    ELSE IF ~(recipients[i].percentage_bps > 0) THEN "ZeroPercentage"
    ELSE IF \E j \in (i + 1)..Len(recipients) : recipients[i].address = recipients[j].address
         THEN "DuplicateRecipient"
    ELSE validate_each_recipient(recipients, i + 1)

\* validate_recipient_ata for every recipient, in order
RECURSIVE validate_recipient_atas(_, _, _, _)
validate_recipient_atas(recipients, remaining_accounts, mint, i) ==
    IF i > Len(recipients) THEN Ok
    ELSE LET e == validate_recipient_ata(remaining_accounts[i], recipients[i].address, mint)
         IN  IF e # Ok THEN e
             ELSE validate_recipient_atas(recipients, remaining_accounts, mint, i + 1)

\* faulty variant of validate_recipients: the total of the shares is not
\* compared with REQUIRED_SPLIT_TOTAL
validate_recipients_without_total(recipients, remaining_accounts, mint) ==
    LET recipient_count == Len(recipients) IN
    IF ~(recipient_count >= MIN_RECIPIENTS /\ recipient_count <= MAX_RECIPIENTS)
    THEN "InvalidRecipientCount"
    ELSE IF validate_each_recipient(recipients, 1) # Ok
         THEN validate_each_recipient(recipients, 1)
    ELSE IF ~(Len(remaining_accounts) >= recipient_count) THEN "InsufficientRemainingAccounts"
    ELSE validate_recipient_atas(recipients, remaining_accounts, mint, 1)

\* the validation both create and update run before they write anything
validate_recipients(recipients, remaining_accounts, mint) ==
    LET recipient_count == Len(recipients) IN
    IF ~(recipient_count >= MIN_RECIPIENTS /\ recipient_count <= MAX_RECIPIENTS)
    THEN "InvalidRecipientCount"
    ELSE IF total_bps(recipients, 1) # REQUIRED_SPLIT_TOTAL THEN "InvalidSplitTotal"
    ELSE IF validate_each_recipient(recipients, 1) # Ok
         THEN validate_each_recipient(recipients, 1)
    ELSE IF ~(Len(remaining_accounts) >= recipient_count) THEN "InsufficientRemainingAccounts"
    ELSE validate_recipient_atas(recipients, remaining_accounts, mint, 1)

\* copy to the fixed array, default the remaining slots
recipients_array(recipients) ==
    [i \in 1..MAX_RECIPIENTS |->
        IF i <= Len(recipients)
        THEN [address |-> recipients[i].address,
              percentage_bps |-> recipients[i].percentage_bps]
        ELSE RecipientDefault]

\* result = [err, config]
create_split_config(config, authority, payer, unique_id, mint, recipients, remaining_accounts) ==
    IF config.initialized THEN [err |-> "AccountAlreadyInUse", config |-> config]
    ELSE IF validate_recipients(recipients, remaining_accounts, mint) # Ok
    THEN [err |-> validate_recipients(recipients, remaining_accounts, mint), config |-> config]
    ELSE [err |-> Ok,
          config |->
            [initialized |-> TRUE, version |-> 1, authority |-> authority,
             mint |-> mint,
             vault |-> ATA(SplitConfigPda(authority, mint, unique_id), mint),
             unique_id |-> unique_id,
             bump |-> split_config_bump(authority, mint, unique_id),
             recipient_count |-> Len(recipients),
             recipients |-> recipients_array(recipients),
             unclaimed_amounts |-> [i \in 1..MAX_RECIPIENTS |-> UnclaimedAmountDefault],
             protocol_unclaimed |-> 0, last_activity |-> 0, rent_payer |-> payer]]

\* for i in 0..recipient_count: unclaimed_amounts[i].amount == 0, then
\* protocol_unclaimed == 0
unclaimed_is_empty(config) ==
    /\ \A i \in 1..config.recipient_count : config.unclaimed_amounts[i].amount = 0
    /\ config.protocol_unclaimed = 0

\* faulty variant of update_split_config: the signer is not compared with
\* the authority of the record
update_split_config_by_anyone(config, vault_balance, authority, new_recipients, remaining_accounts) ==
    LET fail(e) == [err |-> e, config |-> config] IN
    IF ~config.initialized THEN fail("AccountNotInitialized")
    ELSE IF vault_balance # 0 THEN fail("VaultNotEmpty")
    ELSE IF ~unclaimed_is_empty(config) THEN fail("UnclaimedNotEmpty")
    ELSE IF validate_recipients(new_recipients, remaining_accounts, config.mint) # Ok
    THEN fail(validate_recipients(new_recipients, remaining_accounts, config.mint))
    ELSE [err |-> Ok,
          config |->
            [config EXCEPT
                !.recipient_count = Len(new_recipients),
                !.recipients = recipients_array(new_recipients),
                !.unclaimed_amounts = [i \in 1..MAX_RECIPIENTS |-> UnclaimedAmountDefault]]]

\* faulty variant of update_split_config: the new table is laid over the old
\* one, whose entries after the new length stay
update_split_config_merging(config, vault_balance, authority, new_recipients, remaining_accounts) ==
    LET fail(e) == [err |-> e, config |-> config] IN
    IF ~config.initialized THEN fail("AccountNotInitialized")
    ELSE IF config.authority # authority THEN fail("Unauthorized")
    ELSE IF vault_balance # 0 THEN fail("VaultNotEmpty")
    ELSE IF ~unclaimed_is_empty(config) THEN fail("UnclaimedNotEmpty")
    ELSE IF validate_recipients(new_recipients, remaining_accounts, config.mint) # Ok
    THEN fail(validate_recipients(new_recipients, remaining_accounts, config.mint))
    ELSE [err |-> Ok,
          config |->
            [config EXCEPT
                !.recipient_count = Len(new_recipients),
                !.recipients = [i \in 1..MAX_RECIPIENTS |->
                                  IF i <= Len(new_recipients)
                                  THEN recipients_array(new_recipients)[i]
                                  ELSE config.recipients[i]],
                !.unclaimed_amounts = [i \in 1..MAX_RECIPIENTS |-> UnclaimedAmountDefault]]]

\* faulty variant of update_split_config: the vault balance is not examined
update_split_config_on_funded_vault(config, vault_balance, authority, new_recipients, remaining_accounts) ==
    LET fail(e) == [err |-> e, config |-> config] IN
    IF ~config.initialized THEN fail("AccountNotInitialized")
    ELSE IF config.authority # authority THEN fail("Unauthorized")
    ELSE IF ~unclaimed_is_empty(config) THEN fail("UnclaimedNotEmpty")
    ELSE IF validate_recipients(new_recipients, remaining_accounts, config.mint) # Ok
    THEN fail(validate_recipients(new_recipients, remaining_accounts, config.mint))
    ELSE [err |-> Ok,
          config |->
            [config EXCEPT
                !.recipient_count = Len(new_recipients),
                !.recipients = recipients_array(new_recipients),
                !.unclaimed_amounts = [i \in 1..MAX_RECIPIENTS |-> UnclaimedAmountDefault]]]

\* result = [err, config]
update_split_config(config, vault_balance, authority, new_recipients, remaining_accounts) ==
    LET fail(e) == [err |-> e, config |-> config] IN
    IF ~config.initialized THEN fail("AccountNotInitialized")
    ELSE IF config.authority # authority THEN fail("Unauthorized")
    ELSE IF vault_balance # 0 THEN fail("VaultNotEmpty")
    ELSE IF ~unclaimed_is_empty(config) THEN fail("UnclaimedNotEmpty")
    ELSE IF validate_recipients(new_recipients, remaining_accounts, config.mint) # Ok
    THEN fail(validate_recipients(new_recipients, remaining_accounts, config.mint))
    ELSE [err |-> Ok,
          config |->
            [config EXCEPT
                !.recipient_count = Len(new_recipients),
                !.recipients = recipients_array(new_recipients),
                !.unclaimed_amounts = [i \in 1..MAX_RECIPIENTS |-> UnclaimedAmountDefault]]]

\* faulty variant of close_split_config: the signer is not compared with the
\* authority of the record
close_split_config_by_anyone(config, vault_balance, authority, rent_destination) ==
    LET fail(e) == [err |-> e, config |-> config, vault_closed |-> FALSE, rent |-> <<>>] IN
    IF ~config.initialized THEN fail("AccountNotInitialized")
    ELSE IF vault_balance # 0 THEN fail("VaultNotEmpty")
    ELSE IF rent_destination # config.rent_payer THEN fail("InvalidRentDestination")
    ELSE IF ~unclaimed_is_empty(config) THEN fail("UnclaimedNotEmpty")
    ELSE [err |-> Ok, config |-> SplitConfigZero, vault_closed |-> TRUE,
          rent |-> << [account |-> "vault", destination |-> rent_destination],
                      [account |-> "split_config", destination |-> rent_destination] >>]

\* faulty variant of close_split_config: the named destination is not
\* compared with the recorded rent_payer
close_split_config_to_any_destination(config, vault_balance, authority, rent_destination) ==
    LET fail(e) == [err |-> e, config |-> config, vault_closed |-> FALSE, rent |-> <<>>] IN
    IF ~config.initialized THEN fail("AccountNotInitialized")
    ELSE IF config.authority # authority THEN fail("Unauthorized")
    ELSE IF vault_balance # 0 THEN fail("VaultNotEmpty")
    ELSE IF ~unclaimed_is_empty(config) THEN fail("UnclaimedNotEmpty")
    ELSE [err |-> Ok, config |-> SplitConfigZero, vault_closed |-> TRUE,
          rent |-> << [account |-> "vault", destination |-> rent_destination],
                      [account |-> "split_config", destination |-> rent_destination] >>]

\* result = [err, config, vault_closed, rent]; closing zeroes the account.
\* rent lists the storage deposits released and the account credited with
\* each: the vault's by the close_account CPI of the handler, the record's by
\* Anchor's close when the handler has returned Ok.
close_split_config(config, vault_balance, authority, rent_destination) ==
    LET fail(e) == [err |-> e, config |-> config, vault_closed |-> FALSE, rent |-> <<>>] IN
    IF ~config.initialized THEN fail("AccountNotInitialized")
    ELSE IF config.authority # authority THEN fail("Unauthorized")
    ELSE IF vault_balance # 0 THEN fail("VaultNotEmpty")
    ELSE IF rent_destination # config.rent_payer THEN fail("InvalidRentDestination")
    ELSE IF ~unclaimed_is_empty(config) THEN fail("UnclaimedNotEmpty")
    ELSE [err |-> Ok, config |-> SplitConfigZero, vault_closed |-> TRUE,
          rent |-> << [account |-> "vault", destination |-> rent_destination],
                      [account |-> "split_config", destination |-> rent_destination] >>]

(***************************************************************************)
(* instructions/initialize_protocol.rs, update_protocol_config.rs,         *)
(* transfer_protocol_authority.rs, accept_protocol_authority.rs            *)
(***************************************************************************)
\* the program's ProgramData account as the handler reads it
ProgramData(owned_by_loader, canonical, has_authority, upgrade_authority) ==
    [owned_by_loader |-> owned_by_loader, canonical |-> canonical,
     has_authority |-> has_authority, upgrade_authority |-> upgrade_authority]

\* faulty variant of initialize_protocol: an existing record is initialized
\* again (init_if_needed)
initialize_protocol_if_needed(pc, authority, fee_wallet, program_data) ==
    LET fail(e) == [err |-> e, pc |-> pc] IN
    IF ~program_data.owned_by_loader THEN fail("Unauthorized")
    ELSE IF fee_wallet = DefaultPubkey THEN fail("ZeroAddress")
    ELSE IF ~program_data.canonical THEN fail("Unauthorized")
    ELSE IF ~program_data.has_authority THEN fail("Unauthorized")
    ELSE IF program_data.upgrade_authority # authority THEN fail("Unauthorized")
    ELSE [err |-> Ok,
          pc |-> [initialized |-> TRUE, authority |-> authority,
                  pending_authority |-> DefaultPubkey, fee_wallet |-> fee_wallet]]

\* result = [err, pc]
initialize_protocol(pc, authority, fee_wallet, program_data) ==
    LET fail(e) == [err |-> e, pc |-> pc] IN
    IF pc.initialized THEN fail("AccountAlreadyInUse")
    ELSE IF ~program_data.owned_by_loader THEN fail("Unauthorized")
    ELSE IF fee_wallet = DefaultPubkey THEN fail("ZeroAddress")
    ELSE IF ~program_data.canonical THEN fail("Unauthorized")
    ELSE IF ~program_data.has_authority THEN fail("Unauthorized")
    ELSE IF program_data.upgrade_authority # authority THEN fail("Unauthorized")
    ELSE [err |-> Ok,
          pc |-> [initialized |-> TRUE, authority |-> authority,
                  pending_authority |-> DefaultPubkey, fee_wallet |-> fee_wallet]]

\* faulty variant of update_protocol_config: the new fee wallet is not
\* compared with the zero address
update_protocol_config_without_zero_check(pc, authority, new_fee_wallet) ==
    LET fail(e) == [err |-> e, pc |-> pc] IN
    IF ~pc.initialized THEN fail("AccountNotInitialized")
    ELSE IF pc.authority # authority THEN fail("Unauthorized")
    ELSE [err |-> Ok, pc |-> [pc EXCEPT !.fee_wallet = new_fee_wallet]]

\* faulty variant of update_protocol_config: the pending candidate may sign
\* in place of the authority
update_protocol_config_by_candidate(pc, authority, new_fee_wallet) ==
    LET fail(e) == [err |-> e, pc |-> pc] IN
    IF ~pc.initialized THEN fail("AccountNotInitialized")
    ELSE IF pc.authority # authority /\ pc.pending_authority # authority THEN fail("Unauthorized")
    ELSE IF new_fee_wallet = DefaultPubkey THEN fail("ZeroAddress")
    ELSE [err |-> Ok, pc |-> [pc EXCEPT !.fee_wallet = new_fee_wallet]]

update_protocol_config(pc, authority, new_fee_wallet) ==
    LET fail(e) == [err |-> e, pc |-> pc] IN
    IF ~pc.initialized THEN fail("AccountNotInitialized")
    ELSE IF pc.authority # authority THEN fail("Unauthorized")
    ELSE IF new_fee_wallet = DefaultPubkey THEN fail("ZeroAddress")
    ELSE [err |-> Ok, pc |-> [pc EXCEPT !.fee_wallet = new_fee_wallet]]

\* faulty variant of transfer_protocol_authority: the signer is not compared
\* with the authority of the record
transfer_protocol_authority_by_anyone(pc, authority, new_authority) ==
    LET fail(e) == [err |-> e, pc |-> pc] IN
    IF ~pc.initialized THEN fail("AccountNotInitialized")
    ELSE [err |-> Ok, pc |-> [pc EXCEPT !.pending_authority = new_authority]]

\* faulty variant of transfer_protocol_authority: the handover is made in one
\* step, the given address becoming the authority at once
transfer_protocol_authority_in_one_step(pc, authority, new_authority) ==
    LET fail(e) == [err |-> e, pc |-> pc] IN
    IF ~pc.initialized THEN fail("AccountNotInitialized")
    ELSE IF pc.authority # authority THEN fail("Unauthorized")
    ELSE [err |-> Ok, pc |-> [pc EXCEPT !.authority = new_authority]]

\* faulty variant of transfer_protocol_authority: the authority may not name
\* itself as the candidate
transfer_protocol_authority_to_others_only(pc, authority, new_authority) ==
    LET fail(e) == [err |-> e, pc |-> pc] IN
    IF ~pc.initialized THEN fail("AccountNotInitialized")
    ELSE IF pc.authority # authority THEN fail("Unauthorized")
    ELSE IF new_authority = pc.authority THEN fail("Unauthorized")
    ELSE [err |-> Ok, pc |-> [pc EXCEPT !.pending_authority = new_authority]]

transfer_protocol_authority(pc, authority, new_authority) ==
    LET fail(e) == [err |-> e, pc |-> pc] IN
    IF ~pc.initialized THEN fail("AccountNotInitialized")
    ELSE IF pc.authority # authority THEN fail("Unauthorized")
    ELSE [err |-> Ok, pc |-> [pc EXCEPT !.pending_authority = new_authority]]

\* faulty variant of accept_protocol_authority: the current authority may
\* complete the handover in place of the candidate
accept_protocol_authority_by_authority(pc, new_authority) ==
    LET fail(e) == [err |-> e, pc |-> pc] IN
    IF ~pc.initialized THEN fail("AccountNotInitialized")
    ELSE IF ~(pc.pending_authority # DefaultPubkey) THEN fail("NoPendingTransfer")
    ELSE IF ~(pc.pending_authority = new_authority \/ pc.authority = new_authority)
    THEN fail("Unauthorized")
    ELSE [err |-> Ok,
          pc |-> [pc EXCEPT !.authority = new_authority,
                            !.pending_authority = DefaultPubkey]]

accept_protocol_authority(pc, new_authority) ==
    LET fail(e) == [err |-> e, pc |-> pc] IN
    IF ~pc.initialized THEN fail("AccountNotInitialized")
    ELSE IF ~(pc.pending_authority # DefaultPubkey) THEN fail("NoPendingTransfer")
    ELSE IF ~(pc.pending_authority = new_authority) THEN fail("Unauthorized")
    ELSE [err |-> Ok,
          pc |-> [pc EXCEPT !.authority = new_authority,
                            !.pending_authority = DefaultPubkey]]

(***************************************************************************)
(* The ledger outside the program                                          *)
(***************************************************************************)
RECURSIVE SumAmounts(_, _)
SumAmounts(transfers, i) ==
    IF i > Len(transfers) THEN 0
    ELSE transfers[i].amount + SumAmounts(transfers, i + 1)

\* the vault's balance after the transfers of one call
VaultAfter(vault_balance, transfers) == vault_balance - SumAmounts(transfers, 1)

(***************************************************************************)
(* Inputs                                                                  *)
(***************************************************************************)
Times == {1}
Executors == Wallets
AddressChoices == {DefaultPubkey} \cup Wallets

R(address, percentage_bps) == [address |-> address, percentage_bps |-> percentage_bps]
\* recipient lists a caller passes to create and update: valid tables, and
\* tables that break one or several of the validation rules
ValidRecipientLists ==
    { <<R(1, 9900)>>,
      <<R(1, 5000), R(2, 4900)>>,
      <<R(2, 9899), R(1, 1)>> }
InvalidRecipientLists ==
    { <<>>,
      <<R(1, 5000), R(2, 5000)>>,
      <<R(DefaultPubkey, 9900)>>,
      <<R(1, 9900), R(2, 0)>>,
      <<R(1, 5000), R(1, 4900)>> }
RecipientLists == ValidRecipientLists \cup InvalidRecipientLists

\* receiving accounts a caller can supply for recipient r
GoodRecipientAccounts(r, mint) ==
    { EmptyAccount(ATA(r, mint)),
      TokenAccount(ATA(r, mint), r, mint, FALSE, TRUE),
      TokenAccount(ATA(r, mint), r, mint, TRUE, TRUE) }
BadRecipientAccounts(r, mint) ==
    { TokenAccount(NonAta(r), r, mint, FALSE, TRUE),
      TokenAccount(ATA(r, mint), OtherWallet(r), mint, FALSE, TRUE),
      TokenAccount(ATA(r, mint), r, OTHER_MINT, FALSE, TRUE),
      DataAccount(ATA(r, mint), TOKEN_ID),
      [TokenAccount(ATA(r, mint), r, mint, FALSE, TRUE) EXCEPT !.owner = SYSTEM_ID],
      TokenAccount(ATA(r, mint), r, mint, FALSE, FALSE) }
RecipientAccounts(r, mint) == GoodRecipientAccounts(r, mint) \cup BadRecipientAccounts(r, mint)

\* accounts a caller can supply in the trailing (protocol fee) position
GoodProtocolAccounts(fee_wallet, mint) == GoodRecipientAccounts(fee_wallet, mint)
BadProtocolAccounts(fee_wallet, mint) ==
    BadRecipientAccounts(fee_wallet, mint)
    \cup { TokenAccount(ATA(OtherWallet(fee_wallet), mint), OtherWallet(fee_wallet), mint,
                        FALSE, TRUE),
           EmptyAccount(NonAta(fee_wallet)) }
ProtocolAccounts(fee_wallet, mint) ==
    GoodProtocolAccounts(fee_wallet, mint) \cup BadProtocolAccounts(fee_wallet, mint)

\* the owner whose receiving account position i of remaining_accounts is for
PositionOwner(config, pc, i) ==
    IF i <= config.recipient_count THEN config.recipients[i].address ELSE pc.fee_wallet
GoodAt(config, pc, i) ==
    IF i <= config.recipient_count
    THEN GoodRecipientAccounts(PositionOwner(config, pc, i), config.mint)
    ELSE GoodProtocolAccounts(PositionOwner(config, pc, i), config.mint)
BadAt(config, pc, i) ==
    IF i <= config.recipient_count
    THEN BadRecipientAccounts(PositionOwner(config, pc, i), config.mint)
    ELSE BadProtocolAccounts(PositionOwner(config, pc, i), config.mint)

Extend(S, C) == {Append(s, c) : s \in S, c \in C}

\* account lists for positions 1..k, none of them bad
RECURSIVE AllGood(_, _, _)
AllGood(config, pc, k) ==
    IF k = 0 THEN {<<>>}
    ELSE Extend(AllGood(config, pc, k - 1), GoodAt(config, pc, k))

\* every position holds the owner's associated token account: all of them
\* existing (empty = FALSE) or all of them missing (empty = TRUE)
Uniform(config, pc, k, empty) ==
    [i \in 1..k |->
        IF empty THEN EmptyAccount(ATA(PositionOwner(config, pc, i), config.mint))
        ELSE TokenAccount(ATA(PositionOwner(config, pc, i), config.mint),
                          PositionOwner(config, pc, i), config.mint, FALSE, TRUE)]

\* account lists for positions 1..k with exactly one bad account among
\* accounts that all exist or are all missing
OneBad(config, pc, k) ==
    UNION {{[Uniform(config, pc, k, empty) EXCEPT ![i] = a] : a \in BadAt(config, pc, i)} :
           i \in 1..k, empty \in BOOLEAN}

\* account lists for positions 1..k, k >= 2, all existing, with a bad account
\* in the last position and a token account of another owner in the first
BadPair(config, pc, k) ==
    IF k < 2 THEN {}
    ELSE {[Uniform(config, pc, k, FALSE) EXCEPT
              ![1] = TokenAccount(ATA(PositionOwner(config, pc, 1), config.mint),
                                  OtherWallet(PositionOwner(config, pc, 1)), config.mint,
                                  FALSE, TRUE),
              ![k] = a] : a \in BadAt(config, pc, k)}

\* existing accounts for the first k positions only, k = 0..n
Shorter(config, pc, n) ==
    {SubSeq(Uniform(config, pc, n, FALSE), 1, k) : k \in 0..n}

\* remaining_accounts of an execute_split call: one account per active
\* recipient and the trailing protocol account, at most one of them bad, or
\* the first and the last of them bad; or the recipients' accounts alone, the
\* trailing account left out; or fewer accounts still
ExecuteAccounts(config, pc) ==
    LET n == config.recipient_count
    IN  AllGood(config, pc, n + 1) \cup OneBad(config, pc, n + 1)
        \cup BadPair(config, pc, n + 1) \cup AllGood(config, pc, n)
        \cup Shorter(config, pc, n)

\* remaining_accounts of a create or update call for the list `recipients`:
\* every recipient's own token account, and, for a valid list, the same with
\* the first account replaced or with the last one left out
ConfigAccounts(recipients, mint) ==
    LET valid == [i \in 1..Len(recipients) |->
                    TokenAccount(ATA(recipients[i].address, mint),
                                 recipients[i].address, mint, FALSE, TRUE)]
    IN  IF recipients \notin ValidRecipientLists THEN {valid}
        ELSE {valid, SubSeq(valid, 1, Len(valid) - 1)}
             \cup {[valid EXCEPT ![1] = a] :
                      a \in {EmptyAccount(ATA(recipients[1].address, mint))}
                            \cup BadRecipientAccounts(recipients[1].address, mint)}

\* Recipient tables for the validation rules: every table of at most two
\* entries over a few addresses (the zero address among them) and shares
\* around the required total and at the ends of u16; and tables of 3 to
\* MAX_RECIPIENTS + 1 entries that share 9900 evenly, each as it is and with
\* one rule broken
TableAddresses == {DefaultPubkey} \cup (1..3)
TableShares == {0, 1, 4950, 9899, 9900, 9901, 65535}
TableEntries == {R(a, b) : a \in TableAddresses, b \in TableShares}
ShortTables ==
    {<<>>} \cup {<<e>> : e \in TableEntries} \cup {<<e, f>> : e, f \in TableEntries}
EvenTable(n) ==
    [i \in 1..n |->
        R(i, IF i < n THEN REQUIRED_SPLIT_TOTAL \div n
             ELSE REQUIRED_SPLIT_TOTAL - (n - 1) * (REQUIRED_SPLIT_TOTAL \div n))]
TableVariants(t) ==
    { t,
      [t EXCEPT ![1].address = DefaultPubkey],
      [t EXCEPT ![Len(t)].address = t[1].address],
      [t EXCEPT ![1].percentage_bps = 0,
                ![2].percentage_bps = t[1].percentage_bps + t[2].percentage_bps],
      [t EXCEPT ![Len(t)].percentage_bps = @ + 1],
      [t EXCEPT ![Len(t)].percentage_bps = @ - 1] }
LongTables == UNION {TableVariants(EvenTable(n)) : n \in 3..(MAX_RECIPIENTS + 1)}
Tables == ShortTables \cup LongTables

\* every recipient's own existing token account, in order
ValidAccounts(recipients, mint) ==
    [i \in 1..Len(recipients) |->
        TokenAccount(ATA(recipients[i].address, mint), recipients[i].address, mint,
                     FALSE, TRUE)]

\* Calls of create and update that break several validation rules at once:
\* tables of two entries over the zero address and two wallets with shares 0,
\* 4950 and 9900, the empty table and the tables of MAX_RECIPIENTS + 1
\* entries; each with the recipients' own accounts, with the last account
\* left out, and with accounts that fail one or several of the account checks
PrecedenceTables ==
    {<<>>}
    \cup {<<R(a, p), R(b, q)>> : a, b \in {DefaultPubkey, 1, 2}, p, q \in {0, 4950, 9900}}
    \cup TableVariants(EvenTable(MAX_RECIPIENTS + 1))
PrecedenceAccounts(recipients, mint) ==
    LET valid == ValidAccounts(recipients, mint)
        n == Len(recipients)
        first == IF n = 0 THEN DefaultPubkey ELSE recipients[1].address
        stranger == TokenAccount(ATA(first, mint), OtherWallet(first), OTHER_MINT, FALSE, TRUE)
        other_mint == TokenAccount(ATA(first, mint), first, OTHER_MINT, FALSE, TRUE)
    IN  IF n = 0 THEN {valid}
        ELSE { valid,
               SubSeq(valid, 1, n - 1),
               SubSeq([valid EXCEPT ![1] = stranger], 1, n - 1),
               [valid EXCEPT ![1] = stranger],
               [valid EXCEPT ![1] = [stranger EXCEPT !.owner = SYSTEM_ID]],
               [valid EXCEPT ![1] = other_mint,
                             ![n] = EmptyAccount(ATA(recipients[n].address, mint))],
               [valid EXCEPT ![1] = DataAccount(ATA(first, mint), SYSTEM_ID),
                             ![n] = EmptyAccount(ATA(recipients[n].address, mint))] }
PrecedenceCases ==
    UNION {{<<t, a>> : a \in PrecedenceAccounts(t, MINT)} : t \in PrecedenceTables}

ProgramDataChoices ==
    { ProgramData(TRUE, TRUE, TRUE, UPGRADE_AUTHORITY),
      ProgramData(FALSE, TRUE, TRUE, UPGRADE_AUTHORITY),
      ProgramData(TRUE, FALSE, TRUE, UPGRADE_AUTHORITY),
      ProgramData(TRUE, TRUE, FALSE, DefaultPubkey) }

(***************************************************************************)
(* The state machine                                                       *)
(***************************************************************************)
\* Init: the program is deployed, no account of it exists yet.
Init ==
    /\ protocol_config = ProtocolConfigZero
    /\ split_config = SplitConfigZero
    /\ vault_amount = 0

\* A call that fails is rolled back by the host and changes nothing.

InitializeProtocol ==
    \E authority \in Wallets, fee_wallet \in AddressChoices, program_data \in ProgramDataChoices :
        LET r == initialize_protocol(protocol_config, authority, fee_wallet, program_data) IN
        /\ protocol_config' = r.pc
        /\ UNCHANGED <<split_config, vault_amount>>

UpdateProtocolConfig ==
    \E authority \in Wallets, new_fee_wallet \in AddressChoices :
        LET r == update_protocol_config(protocol_config, authority, new_fee_wallet) IN
        /\ protocol_config' = r.pc
        /\ UNCHANGED <<split_config, vault_amount>>

TransferProtocolAuthority ==
    \E authority \in Wallets, new_authority \in AddressChoices :
        LET r == transfer_protocol_authority(protocol_config, authority, new_authority) IN
        /\ protocol_config' = r.pc
        /\ UNCHANGED <<split_config, vault_amount>>

AcceptProtocolAuthority ==
    \E new_authority \in Wallets :
        LET r == accept_protocol_authority(protocol_config, new_authority) IN
        /\ protocol_config' = r.pc
        /\ UNCHANGED <<split_config, vault_amount>>

CreateSplitConfig ==
    \E authority \in SplitAuthorities, payer \in Wallets, recipients \in RecipientLists :
      \E remaining_accounts \in ConfigAccounts(recipients, MINT) :
        LET r == create_split_config(split_config, authority, payer, UNIQUE_ID, MINT,
                                     recipients, remaining_accounts) IN
        /\ split_config' = r.config
        /\ vault_amount' = IF r.err = Ok THEN 0 ELSE vault_amount
        /\ UNCHANGED protocol_config

UpdateSplitConfig ==
    \E authority \in Wallets, new_recipients \in RecipientLists :
      \E remaining_accounts \in ConfigAccounts(new_recipients, MINT) :
        LET r == update_split_config(split_config, vault_amount, authority,
                                     new_recipients, remaining_accounts) IN
        /\ split_config' = r.config
        /\ UNCHANGED <<protocol_config, vault_amount>>

CloseSplitConfig ==
    \E authority \in Wallets, rent_destination \in Wallets :
        LET r == close_split_config(split_config, vault_amount, authority, rent_destination) IN
        /\ split_config' = r.config
        /\ UNCHANGED <<protocol_config, vault_amount>>

\* anyone may transfer tokens of the mint into the vault
Deposit ==
    \E amount \in 1..MaxDeposit :
        /\ split_config.initialized
        /\ vault_amount + amount <= MaxVault
        /\ vault_amount' = vault_amount + amount
        /\ UNCHANGED <<protocol_config, split_config>>

ExecuteSplit ==
    \E executor \in Executors, now \in Times :
      \E remaining_accounts \in ExecuteAccounts(split_config, protocol_config) :
        LET r == execute_split(split_config, vault_amount, protocol_config,
                               remaining_accounts, executor, now) IN
        /\ split_config' = r.config
        /\ vault_amount' = VaultAfter(vault_amount, r.transfers)
        /\ UNCHANGED protocol_config

\* the split lifecycle, the distribution engine and the fee-wallet update
Next ==
    \/ InitializeProtocol
    \/ UpdateProtocolConfig
    \/ CreateSplitConfig
    \/ UpdateSplitConfig
    \/ CloseSplitConfig
    \/ Deposit
    \/ ExecuteSplit

Spec == Init /\ [][Next]_vars

\* every operation of the program, the authority handover included
NextAuthority ==
    \/ InitializeProtocol
    \/ UpdateProtocolConfig
    \/ TransferProtocolAuthority
    \/ AcceptProtocolAuthority
    \/ CreateSplitConfig
    \/ UpdateSplitConfig
    \/ CloseSplitConfig
    \/ Deposit
    \/ ExecuteSplit

SpecAuthority == Init /\ [][NextAuthority]_vars

\* create and update called with the recipient tables of `Tables`, each with
\* the recipients' own token accounts
CreateFromTable ==
    \E authority \in SplitAuthorities, payer \in Wallets, recipients \in Tables :
        LET r == create_split_config(split_config, authority, payer, UNIQUE_ID, MINT,
                                     recipients, ValidAccounts(recipients, MINT)) IN
        /\ split_config' = r.config
        /\ vault_amount' = IF r.err = Ok THEN 0 ELSE vault_amount
        /\ UNCHANGED protocol_config

UpdateFromTable ==
    \E authority \in Wallets, new_recipients \in Tables :
        LET r == update_split_config(split_config, vault_amount, authority,
                                     new_recipients, ValidAccounts(new_recipients, MINT)) IN
        /\ split_config' = r.config
        /\ UNCHANGED <<protocol_config, vault_amount>>

\* the recipient-table validation of create and update
NextTables ==
    \/ CreateFromTable
    \/ UpdateFromTable
    \/ CloseSplitConfig
    \/ Deposit

SpecTables == Init /\ [][NextTables]_vars

\* u16::MAX, the largest percentage_bps that the type admits
U16_MAX == 65535
\* vault balances from 0 up to u64::MAX at which a distribution is computed
ShareTotals ==
    (0..120) \cup {999, 9999, 10000, 10001, 32768, U64_MAX - 1, U64_MAX}
\* shares in basis points, in and out of the range the validation admits
ShareBps == {0, 1, 100, 4900, 5000, 9899, 9900, 9999, 10000, 10001, 20000, 32767, U16_MAX}
\* the pairs whose product the model checker's 32-bit integers can hold
ShareInputs ==
    {p \in ShareTotals \X ShareBps : p[2] = U16_MAX => p[1] <= 32768}

\* a split created with a valid table beside an initialized protocol, its
\* vault funded with any balance of ShareTotals
InitShare ==
    /\ protocol_config =
         initialize_protocol(ProtocolConfigZero, UPGRADE_AUTHORITY, OtherWallet(UPGRADE_AUTHORITY),
                             ProgramData(TRUE, TRUE, TRUE, UPGRADE_AUTHORITY)).pc
    /\ split_config \in
         { create_split_config(SplitConfigZero, a, a, UNIQUE_ID, MINT, t,
                               ValidAccounts(t, MINT)).config :
             a \in SplitAuthorities, t \in ValidRecipientLists }
    /\ vault_amount \in ShareTotals

NextShare ==
    \/ ExecuteSplit
    \/ Deposit

SpecShare == InitShare /\ [][NextShare]_vars

(***************************************************************************)
(* Vocabulary of the properties                                            *)
(***************************************************************************)
\* the execute_split call with these inputs, made in the current state
Call(remaining_accounts, executor, now) ==
    execute_split(split_config, vault_amount, protocol_config,
                  remaining_accounts, executor, now)

\* liability of slot i, and the sum over slots 1..k
Liability(config, i) == config.unclaimed_amounts[i].amount
RECURSIVE Liabilities(_, _)
Liabilities(config, k) ==
    IF k = 0 THEN 0 ELSE Liability(config, k) + Liabilities(config, k - 1)

\* what a call's transfers of the given kinds moved, in all and to slot i
Sent(transfers, kinds) ==
    SumAmounts(SelectSeq(transfers, LAMBDA t : t.kind \in kinds), 1)
SentTo(transfers, kinds, i) ==
    SumAmounts(SelectSeq(transfers, LAMBDA t : t.kind \in kinds /\ t.idx = i), 1)

\* available, from the balance and the record as they are at call start
AvailableAtStart ==
    vault_amount - Liabilities(split_config, split_config.recipient_count)
                 - split_config.protocol_unclaimed

\* what a successful call with result r added to slot i's liability
NewlyHeld(r, i) ==
    Liability(r.config, i) + SentTo(r.transfers, {"heal"}, i) - Liability(split_config, i)
RECURSIVE SumNewlyHeld(_, _)
SumNewlyHeld(r, k) ==
    IF k = 0 THEN 0 ELSE NewlyHeld(r, k) + SumNewlyHeld(r, k - 1)
\* the part of the protocol fee a successful call with result r accrued
FeeAccrued(r) ==
    r.config.protocol_unclaimed + Sent(r.transfers, {"protocol_heal"})
        - split_config.protocol_unclaimed

\* the new share of slot i: floor(available * bps / 10000)
Share(i) == (AvailableAtStart * split_config.recipients[i].percentage_bps) \div 10000

\* the protocol fee: what the shares leave of available
RECURSIVE SumShares(_)
SumShares(k) == IF k = 0 THEN 0 ELSE Share(k) + SumShares(k - 1)
Fee == AvailableAtStart - SumShares(split_config.recipient_count)

\* the receiving account is missing or frozen / present and unfrozen
Unavailable(account) == account.data_is_empty \/ (account.is_token /\ account.frozen)
\* the associated token account of `owner` for the mint, a token account that
\* records `owner` and the mint
Canonical(account, owner, mint) ==
    /\ account.key = ATA(owner, mint)
    /\ account.is_token
    /\ account.owner \in {TOKEN_ID, TOKEN_2022_ID}
    /\ account.tok_owner = owner
    /\ account.tok_mint = mint

\* a token account of a token program that records `owner` and the mint
TokenAccountOf(account, owner, mint) ==
    /\ account.is_token
    /\ account.owner \in {TOKEN_ID, TOKEN_2022_ID}
    /\ account.tok_owner = owner
    /\ account.tok_mint = mint

\* the rules of a recipient table, one by one
CountInRange(recipients) ==
    Len(recipients) >= 1 /\ Len(recipients) <= 20
RECURSIVE SumOfShares(_, _)
SumOfShares(recipients, k) ==
    IF k = 0 THEN 0 ELSE recipients[k].percentage_bps + SumOfShares(recipients, k - 1)
TotalIsRequired(recipients) == SumOfShares(recipients, Len(recipients)) = 9900
NoZeroAddress(recipients) ==
    \A i \in 1..Len(recipients) : recipients[i].address # DefaultPubkey
NoZeroShare(recipients) ==
    \A i \in 1..Len(recipients) : recipients[i].percentage_bps # 0
NoDuplicate(recipients) ==
    \A i, j \in 1..Len(recipients) :
        i # j => recipients[i].address # recipients[j].address
Acceptable(recipients) ==
    /\ CountInRange(recipients)
    /\ TotalIsRequired(recipients)
    /\ NoZeroAddress(recipients)
    /\ NoZeroShare(recipients)
    /\ NoDuplicate(recipients)

\* the error the claim names for a table that breaks one rule and no other
\* (the empty table, whose total cannot be 9900, counts as breaking the size
\* rule); "none" for every other table
ErrorOfTheOnlyBrokenRule(recipients) ==
    LET count == CountInRange(recipients)
        total == TotalIsRequired(recipients) \/ Len(recipients) = 0
        address == NoZeroAddress(recipients)
        share == NoZeroShare(recipients)
        distinct == NoDuplicate(recipients)
    IN  IF ~count /\ total /\ address /\ share /\ distinct THEN "InvalidRecipientCount"
        ELSE IF count /\ ~total /\ address /\ share /\ distinct THEN "InvalidSplitTotal"
        ELSE IF count /\ total /\ ~address /\ share /\ distinct THEN "ZeroAddress"
        ELSE IF count /\ total /\ address /\ ~share /\ distinct THEN "ZeroPercentage"
        ELSE IF count /\ total /\ address /\ share /\ ~distinct THEN "DuplicateRecipient"
        ELSE "none"

\* the create and the update call for a table, with valid receiving accounts
CreateWith(recipients, authority, payer) ==
    create_split_config(split_config, authority, payer, UNIQUE_ID, MINT,
                        recipients, ValidAccounts(recipients, MINT))
UpdateWith(recipients) ==
    update_split_config(split_config, vault_amount, split_config.authority,
                        recipients, ValidAccounts(recipients, split_config.mint))
\* update's preconditions other than the table hold
Updatable ==
    /\ split_config.initialized
    /\ vault_amount = 0
    /\ Liabilities(split_config, MAX_RECIPIENTS) = 0
    /\ split_config.protocol_unclaimed = 0

\* some active recipient's liability or protocol_unclaimed is not zero
HasLiability(config) ==
    \/ \E i \in 1..config.recipient_count : Liability(config, i) # 0
    \/ config.protocol_unclaimed # 0

(***************************************************************************)
(* Properties of the distribution engine                                   *)
(***************************************************************************)
\* C1 (dust conservation): for every execute_split call that succeeds, the
\* new shares transferred, plus the protocol fee (transferred or accrued to
\* protocol_unclaimed), plus the amounts newly added to recipient
\* liabilities, equal the available balance computed at call start.
DustConservation ==
    \A executor \in Executors, now \in Times :
      \A remaining_accounts \in ExecuteAccounts(split_config, protocol_config) :
        LET r == Call(remaining_accounts, executor, now) IN
        r.err = Ok =>
            Sent(r.transfers, {"share"}) + Sent(r.transfers, {"fee"}) + FeeAccrued(r)
                + SumNewlyHeld(r, split_config.recipient_count)
            = AvailableAtStart

\* a call that pays one recipient, holds the share of another and pays the fee
DustConservationWitness ==
    \E executor \in Executors, now \in Times :
      \E remaining_accounts \in ExecuteAccounts(split_config, protocol_config) :
        LET r == Call(remaining_accounts, executor, now) IN
        /\ r.err = Ok
        /\ Sent(r.transfers, {"share"}) > 0
        /\ Sent(r.transfers, {"fee"}) > 0
        /\ SumNewlyHeld(r, split_config.recipient_count) > 0
        /\ AvailableAtStart < vault_amount

\* C2 (solvency): in every state reachable by create, deposits, execute,
\* update and close in any order, the vault balance covers the sum of the
\* per-recipient unclaimed amounts plus protocol_unclaimed, so that no
\* execute_split call fails with MathUnderflow.
Solvency ==
    /\ vault_amount >= Liabilities(split_config, MAX_RECIPIENTS)
                          + split_config.protocol_unclaimed
    /\ \A executor \in Executors, now \in Times :
         \A remaining_accounts \in ExecuteAccounts(split_config, protocol_config) :
           Call(remaining_accounts, executor, now).err # "MathUnderflow"

\* after a call, the vault holds both kinds of liability and a fresh deposit
SolvencyWitness ==
    /\ split_config.last_activity > 0
    /\ Liabilities(split_config, MAX_RECIPIENTS) > 0
    /\ split_config.protocol_unclaimed > 0
    /\ vault_amount > Liabilities(split_config, MAX_RECIPIENTS)
                         + split_config.protocol_unclaimed
    /\ \E executor \in Executors, now \in Times :
         \E remaining_accounts \in ExecuteAccounts(split_config, protocol_config) :
           Call(remaining_accounts, executor, now).err = Ok

\* C3 (idempotence): after an execute_split call that succeeds, a second
\* call with no deposit in between and the same receiving accounts succeeds,
\* makes no transfer, and leaves every per-recipient liability and
\* protocol_unclaimed as the first call left them.
Idempotence ==
    \A executor \in Executors, now \in Times :
      \A remaining_accounts \in ExecuteAccounts(split_config, protocol_config) :
        LET first == Call(remaining_accounts, executor, now) IN
        first.err = Ok =>
          \A executor2 \in Executors, now2 \in Times :
            LET second == execute_split(first.config,
                                        VaultAfter(vault_amount, first.transfers),
                                        protocol_config, remaining_accounts,
                                        executor2, now2)
            IN  /\ second.err = Ok
                /\ second.transfers = <<>>
                /\ \A i \in 1..MAX_RECIPIENTS :
                      Liability(second.config, i) = Liability(first.config, i)
                /\ second.config.protocol_unclaimed = first.config.protocol_unclaimed

\* a first call that transfers, heals and leaves liabilities behind, then a
\* second one on its result
IdempotenceWitness ==
    \E executor \in Executors, now \in Times :
      \E remaining_accounts \in ExecuteAccounts(split_config, protocol_config) :
        LET first == Call(remaining_accounts, executor, now)
            second == execute_split(first.config,
                                    VaultAfter(vault_amount, first.transfers),
                                    protocol_config, remaining_accounts, executor, now)
        IN  /\ first.err = Ok
            /\ Sent(first.transfers, {"share", "fee"}) > 0
            /\ Sent(first.transfers, {"heal", "protocol_heal"}) > 0
            /\ Liabilities(first.config, MAX_RECIPIENTS) > 0
            /\ VaultAfter(vault_amount, first.transfers) > 0
            /\ second.err = Ok

\* C4 (held shares): when a recipient with a non-zero share has a missing or
\* frozen receiving account, the call does not fail for it (with every
\* account missing, frozen or valid the call succeeds); a call that succeeds
\* transfers nothing to that recipient and leaves its liability at the
\* liability before the call plus the share.
HeldShareAccrues ==
    \A executor \in Executors, now \in Times :
      \A remaining_accounts \in ExecuteAccounts(split_config, protocol_config) :
        LET r == Call(remaining_accounts, executor, now)
            n == split_config.recipient_count
        IN  \A i \in 1..n :
              ( /\ split_config.initialized /\ protocol_config.initialized
                /\ Len(remaining_accounts) > n
                /\ Share(i) > 0
                /\ Unavailable(remaining_accounts[i]) )
              =>
              /\ remaining_accounts \in AllGood(split_config, protocol_config, n + 1)
                    => r.err = Ok
              /\ r.err = Ok =>
                    /\ SentTo(r.transfers, {"share", "heal"}, i) = 0
                    /\ Liability(r.config, i) = Liability(split_config, i) + Share(i)

\* a share is held on top of a liability recorded by an earlier call
HeldShareAccruesWitness ==
    \E executor \in Executors, now \in Times :
      \E remaining_accounts \in ExecuteAccounts(split_config, protocol_config) :
        LET r == Call(remaining_accounts, executor, now) IN
        \E i \in 1..split_config.recipient_count :
            /\ r.err = Ok
            /\ Share(i) > 0
            /\ Unavailable(remaining_accounts[i])
            /\ Liability(split_config, i) > 0
            /\ Liability(r.config, i) > Liability(split_config, i)

\* C5 (recipient self-healing, all or nothing): in every execute_split call
\* that succeeds, a recipient with liability L > 0 whose receiving account is
\* present, unfrozen and valid is transferred exactly L beside its new share,
\* and its liability is 0 afterwards; and no execute_split, update or close
\* call leaves a liability strictly between 0 and its value before the call.
RecipientHealingAllOrNothing ==
    /\ \A executor \in Executors, now \in Times :
         \A remaining_accounts \in ExecuteAccounts(split_config, protocol_config) :
           LET r == Call(remaining_accounts, executor, now) IN
           /\ \A i \in 1..MAX_RECIPIENTS :
                 ~(0 < Liability(r.config, i) /\ Liability(r.config, i) < Liability(split_config, i))
           /\ r.err = Ok =>
                 \A i \in 1..split_config.recipient_count :
                   ( /\ Liability(split_config, i) > 0
                     /\ ~Unavailable(remaining_accounts[i])
                     /\ Canonical(remaining_accounts[i], split_config.recipients[i].address,
                                  split_config.mint) )
                   =>
                   /\ SentTo(r.transfers, {"heal"}, i) = Liability(split_config, i)
                   /\ SentTo(r.transfers, {"share"}, i) = Share(i)
                   /\ Liability(r.config, i) = 0
    /\ \A authority \in Wallets, new_recipients \in RecipientLists :
         \A remaining_accounts \in ConfigAccounts(new_recipients, MINT) :
           LET r == update_split_config(split_config, vault_amount, authority,
                                        new_recipients, remaining_accounts) IN
           \A i \in 1..MAX_RECIPIENTS :
             ~(0 < Liability(r.config, i) /\ Liability(r.config, i) < Liability(split_config, i))
    /\ \A authority \in Wallets, rent_destination \in Wallets :
         LET r == close_split_config(split_config, vault_amount, authority, rent_destination) IN
         \A i \in 1..MAX_RECIPIENTS :
           ~(0 < Liability(r.config, i) /\ Liability(r.config, i) < Liability(split_config, i))

\* a liability of more than one unit is healed in full in a call that also
\* pays the recipient a new share
RecipientHealingWitness ==
    \E executor \in Executors, now \in Times :
      \E remaining_accounts \in ExecuteAccounts(split_config, protocol_config) :
        LET r == Call(remaining_accounts, executor, now) IN
        \E i \in 1..split_config.recipient_count :
            /\ r.err = Ok
            /\ Liability(split_config, i) > 1
            /\ ~Unavailable(remaining_accounts[i])
            /\ Share(i) > 0
            /\ SentTo(r.transfers, {"heal"}, i) = Liability(split_config, i)
            /\ SentTo(r.transfers, {"share"}, i) > 0
            /\ Liability(r.config, i) = 0

\* C6 (liabilities grow by accrual only): a recipient's liability is larger
\* after an execute_split call than before only if the call succeeded and held
\* that recipient's non-zero share because its account was missing or frozen,
\* and then it is larger by exactly that share; and no step of the system
\* (create, update, close, deposit, the protocol-config operations) raises a
\* liability other than such an execute_split call.
LiabilitiesGrowByAccrualOnly ==
    /\ [](\A executor \in Executors, now \in Times :
           \A remaining_accounts \in ExecuteAccounts(split_config, protocol_config) :
             LET r == Call(remaining_accounts, executor, now) IN
             \A i \in 1..MAX_RECIPIENTS :
               Liability(r.config, i) > Liability(split_config, i) =>
                 /\ r.err = Ok
                 /\ i <= split_config.recipient_count
                 /\ Share(i) > 0
                 /\ Unavailable(remaining_accounts[i])
                 /\ SentTo(r.transfers, {"share", "heal"}, i) = 0
                 /\ Liability(r.config, i) = Liability(split_config, i) + Share(i))
    /\ [][\A i \in 1..MAX_RECIPIENTS :
            Liability(split_config', i) > Liability(split_config, i) =>
              \E executor \in Executors, now \in Times :
                \E remaining_accounts \in ExecuteAccounts(split_config, protocol_config) :
                  LET r == Call(remaining_accounts, executor, now) IN
                  /\ r.err = Ok
                  /\ split_config' = r.config
                  /\ vault_amount' = VaultAfter(vault_amount, r.transfers)
                  /\ protocol_config' = protocol_config
                  /\ Unavailable(remaining_accounts[i])
                  /\ Liability(split_config', i) = Liability(split_config, i) + Share(i)]_vars

\* a call raises one recipient's liability by its held share and heals the
\* liability of another in the same call
LiabilitiesGrowWitness ==
    \E executor \in Executors, now \in Times :
      \E remaining_accounts \in ExecuteAccounts(split_config, protocol_config) :
        LET r == Call(remaining_accounts, executor, now) IN
        \E i, j \in 1..split_config.recipient_count :
            /\ r.err = Ok
            /\ Liability(r.config, i) > Liability(split_config, i)
            /\ Liability(r.config, j) < Liability(split_config, j)

\* C7 (payout amount): in an execute_split call that succeeds, every
\* recipient whose receiving account is present, unfrozen and valid is
\* transferred as its new share exactly
\* floor((vault balance - all recipient liabilities - protocol_unclaimed)
\* * bps / 10000), whatever the state of the other recipients' accounts; and
\* share(999, 9900) = 989.
PayoutAmount ==
    /\ calculate_recipient_amount(999, 9900) = 989
    /\ \A executor \in Executors, now \in Times :
         \A remaining_accounts \in ExecuteAccounts(split_config, protocol_config) :
           LET r == Call(remaining_accounts, executor, now)
               reserved == Liabilities(split_config, MAX_RECIPIENTS)
                             + split_config.protocol_unclaimed
           IN  r.err = Ok =>
                 \A i \in 1..split_config.recipient_count :
                   ( /\ ~Unavailable(remaining_accounts[i])
                     /\ Canonical(remaining_accounts[i], split_config.recipients[i].address,
                                  split_config.mint) )
                   =>
                   SentTo(r.transfers, {"share"}, i)
                     = ((vault_amount - reserved) * split_config.recipients[i].percentage_bps)
                          \div 10000

\* a recipient is paid its share of a balance that is reserved in part, in a
\* call that holds the share of another recipient
PayoutAmountWitness ==
    \E executor \in Executors, now \in Times :
      \E remaining_accounts \in ExecuteAccounts(split_config, protocol_config) :
        LET r == Call(remaining_accounts, executor, now) IN
        \E i, j \in 1..split_config.recipient_count :
            /\ r.err = Ok
            /\ ~Unavailable(remaining_accounts[i])
            /\ SentTo(r.transfers, {"share"}, i) > 0
            /\ Unavailable(remaining_accounts[j])
            /\ Liability(r.config, j) > Liability(split_config, j)
            /\ Liabilities(split_config, MAX_RECIPIENTS) + split_config.protocol_unclaimed > 0

\* C8 (held protocol fee): when the protocol fee of a call is non-zero and
\* the trailing account is the fee wallet's canonical account, writable, and
\* missing or frozen, the call does not fail for it (with every recipient
\* account missing, frozen or valid it succeeds); a call that succeeds
\* transfers nothing to the protocol, raises protocol_unclaimed by exactly the
\* fee, and still pays every recipient with a valid account its share.
HeldProtocolFeeAccrues ==
    \A executor \in Executors, now \in Times :
      \A remaining_accounts \in ExecuteAccounts(split_config, protocol_config) :
        LET r == Call(remaining_accounts, executor, now)
            n == split_config.recipient_count
            protocol_ata == remaining_accounts[Len(remaining_accounts)]
        IN  ( /\ split_config.initialized /\ protocol_config.initialized
              /\ Len(remaining_accounts) > n
              /\ Fee > 0
              /\ protocol_ata.key = ATA(protocol_config.fee_wallet, split_config.mint)
              /\ protocol_ata.is_writable
              /\ Unavailable(protocol_ata) )
            =>
            /\ remaining_accounts \in AllGood(split_config, protocol_config, n + 1)
                  => r.err = Ok
            /\ r.err = Ok =>
                  /\ Sent(r.transfers, {"fee", "protocol_heal"}) = 0
                  /\ r.config.protocol_unclaimed = split_config.protocol_unclaimed + Fee
                  /\ \A i \in 1..n :
                        ( /\ ~Unavailable(remaining_accounts[i])
                          /\ Canonical(remaining_accounts[i],
                                       split_config.recipients[i].address, split_config.mint) )
                        => SentTo(r.transfers, {"share"}, i) = Share(i)

\* a fee is held on top of an earlier one while a recipient is paid
HeldProtocolFeeWitness ==
    \E executor \in Executors, now \in Times :
      \E remaining_accounts \in ExecuteAccounts(split_config, protocol_config) :
        LET r == Call(remaining_accounts, executor, now) IN
        /\ r.err = Ok
        /\ Fee > 0
        /\ Unavailable(remaining_accounts[Len(remaining_accounts)])
        /\ split_config.protocol_unclaimed > 0
        /\ r.config.protocol_unclaimed > split_config.protocol_unclaimed
        /\ Sent(r.transfers, {"share"}) > 0

\* C9 as stated (protocol self-healing): in every execute_split call that
\* succeeds with protocol_unclaimed non-zero and the protocol's receiving
\* account present and unfrozen, the full protocol_unclaimed is transferred
\* to it and protocol_unclaimed is 0 afterwards, never reduced in part.
ProtocolHealingWhenPresent ==
    \A executor \in Executors, now \in Times :
      \A remaining_accounts \in ExecuteAccounts(split_config, protocol_config) :
        LET r == Call(remaining_accounts, executor, now)
            protocol_ata == remaining_accounts[Len(remaining_accounts)]
        IN  /\ ~(0 < r.config.protocol_unclaimed
                  /\ r.config.protocol_unclaimed < split_config.protocol_unclaimed)
            /\ ( /\ r.err = Ok
                  /\ split_config.protocol_unclaimed > 0
                  /\ ~Unavailable(protocol_ata) )
                =>
                /\ Sent(r.transfers, {"protocol_heal"}) = split_config.protocol_unclaimed
                /\ r.config.protocol_unclaimed = 0

\* C9, amended: in every execute_split call that succeeds with
\* protocol_unclaimed non-zero and the protocol's receiving account present,
\* unfrozen and a token account of the current fee wallet for the configured
\* mint, the full protocol_unclaimed is transferred to that account and
\* protocol_unclaimed is 0 afterwards, whether or not a recipient liability
\* was healed in the call; with an account that is present and unfrozen but
\* no such token account, a call that succeeds transfers nothing to the
\* protocol and leaves protocol_unclaimed as it was; no call reduces
\* protocol_unclaimed in part.
ProtocolHealingWhenValid ==
    \A executor \in Executors, now \in Times :
      \A remaining_accounts \in ExecuteAccounts(split_config, protocol_config) :
        LET r == Call(remaining_accounts, executor, now)
            protocol_ata == remaining_accounts[Len(remaining_accounts)]
            valid == TokenAccountOf(protocol_ata, protocol_config.fee_wallet, split_config.mint)
        IN  /\ ~(0 < r.config.protocol_unclaimed
                  /\ r.config.protocol_unclaimed < split_config.protocol_unclaimed)
            /\ ( /\ r.err = Ok
                  /\ split_config.protocol_unclaimed > 0
                  /\ ~Unavailable(protocol_ata) )
                =>
                IF valid
                THEN /\ Sent(r.transfers, {"protocol_heal"}) = split_config.protocol_unclaimed
                     /\ \A k \in 1..Len(r.transfers) :
                           r.transfers[k].kind = "protocol_heal"
                             => r.transfers[k].key = protocol_ata.key
                     /\ r.config.protocol_unclaimed = 0
                ELSE /\ Sent(r.transfers, {"fee", "protocol_heal"}) = 0
                     /\ r.config.protocol_unclaimed = split_config.protocol_unclaimed

\* a protocol liability of more than one unit is healed in full, in a call
\* that heals no recipient and in a call that heals one
ProtocolHealingWitness ==
    /\ split_config.protocol_unclaimed > 1
    /\ \E executor \in Executors, now \in Times :
         /\ \E a \in ExecuteAccounts(split_config, protocol_config) :
              LET ra == Call(a, executor, now) IN
              /\ ra.err = Ok
              /\ Sent(ra.transfers, {"protocol_heal"}) = split_config.protocol_unclaimed
              /\ Sent(ra.transfers, {"heal"}) = 0
              /\ ra.config.protocol_unclaimed = 0
         /\ \E b \in ExecuteAccounts(split_config, protocol_config) :
              LET rb == Call(b, executor, now) IN
              /\ rb.err = Ok
              /\ Sent(rb.transfers, {"protocol_heal"}) = split_config.protocol_unclaimed
              /\ Sent(rb.transfers, {"heal"}) > 0
              /\ rb.config.protocol_unclaimed = 0

\* C10 (no misdirected recipient funds): every transfer an execute_split
\* call makes for recipient i, new share or healed liability, goes to the
\* account at the canonical address for (recipient i, mint) that records
\* recipient i as owner and the configured mint; and when the account supplied
\* for a recipient with a non-zero share is present and unfrozen but is not
\* that account, the call fails, transfers nothing and changes no liability.
RecipientFundsNotMisdirected ==
    \A executor \in Executors, now \in Times :
      \A remaining_accounts \in ExecuteAccounts(split_config, protocol_config) :
        LET r == Call(remaining_accounts, executor, now)
            n == split_config.recipient_count
        IN  /\ \A k \in 1..Len(r.transfers) :
                  r.transfers[k].kind \in {"share", "heal"} =>
                    LET t == r.transfers[k]
                        recipient == split_config.recipients[t.idx].address
                    IN  /\ t.idx \in 1..n
                        /\ t.key = ATA(recipient, split_config.mint)
                        /\ t.tok_owner = recipient
                        /\ t.tok_mint = split_config.mint
                        /\ t.key = remaining_accounts[t.idx].key
            /\ \A i \in 1..n :
                  ( /\ split_config.initialized /\ protocol_config.initialized
                    /\ Len(remaining_accounts) > n
                    /\ Share(i) > 0
                    /\ ~Unavailable(remaining_accounts[i])
                    /\ ~Canonical(remaining_accounts[i], split_config.recipients[i].address,
                                   split_config.mint) )
                  =>
                  /\ r.err # Ok
                  /\ r.transfers = <<>>
                  /\ r.config = split_config
                  /\ VaultAfter(vault_amount, r.transfers) = vault_amount

\* one call pays a share and heals a liability; another, in the same state,
\* is refused for an account that records another owner
RecipientFundsWitness ==
    \E executor \in Executors, now \in Times :
      /\ \E a \in ExecuteAccounts(split_config, protocol_config) :
           LET ra == Call(a, executor, now) IN
           /\ ra.err = Ok
           /\ Sent(ra.transfers, {"share"}) > 0
           /\ Sent(ra.transfers, {"heal"}) > 0
      /\ \E b \in ExecuteAccounts(split_config, protocol_config) :
           \E i \in 1..split_config.recipient_count :
             /\ Share(i) > 0
             /\ Len(b) > split_config.recipient_count
             /\ b[i].is_token /\ ~b[i].frozen
             /\ b[i].tok_owner # split_config.recipients[i].address
             /\ Call(b, executor, now).err = "RecipientATAWrongOwner"

\* C11 (rejected protocol fee account): when the protocol fee of a call is
\* non-zero and the trailing account has another address than the canonical
\* one for (fee_wallet, mint), or is not writable, or is present and unfrozen
\* and records another owner than fee_wallet or another mint, the call fails,
\* transfers nothing and leaves the record as it was; the error is
\* InvalidProtocolFeeRecipient whenever no recipient's account stopped the
\* call before (each is missing, frozen, or the recipient's valid writable
\* account).
ProtocolFeeAccountRejected ==
    \A executor \in Executors, now \in Times :
      \A remaining_accounts \in ExecuteAccounts(split_config, protocol_config) :
        LET r == Call(remaining_accounts, executor, now)
            n == split_config.recipient_count
            protocol_ata == remaining_accounts[Len(remaining_accounts)]
        IN  ( /\ split_config.initialized /\ protocol_config.initialized
              /\ Len(remaining_accounts) > n
              /\ Fee > 0
              /\ \/ protocol_ata.key # ATA(protocol_config.fee_wallet, split_config.mint)
                 \/ ~protocol_ata.is_writable
                 \/ /\ ~Unavailable(protocol_ata)
                    /\ \/ protocol_ata.tok_owner # protocol_config.fee_wallet
                       \/ protocol_ata.tok_mint # split_config.mint )
            =>
            /\ r.err # Ok
            /\ r.transfers = <<>>
            /\ r.config = split_config
            /\ (\A i \in 1..n :
                   \/ Unavailable(remaining_accounts[i])
                   \/ /\ Canonical(remaining_accounts[i],
                                    split_config.recipients[i].address, split_config.mint)
                      /\ remaining_accounts[i].is_writable)
                => r.err = "InvalidProtocolFeeRecipient"

\* in one state a call is refused for the address of the trailing account,
\* another for its recorded owner, a third because it is read-only
ProtocolFeeAccountRejectedWitness ==
    /\ Fee > 0
    /\ \E executor \in Executors, now \in Times :
         /\ \E a \in ExecuteAccounts(split_config, protocol_config) :
              /\ Len(a) > split_config.recipient_count
              /\ a[Len(a)].key # ATA(protocol_config.fee_wallet, split_config.mint)
              /\ Call(a, executor, now).err = "InvalidProtocolFeeRecipient"
         /\ \E b \in ExecuteAccounts(split_config, protocol_config) :
              /\ Len(b) > split_config.recipient_count
              /\ b[Len(b)].key = ATA(protocol_config.fee_wallet, split_config.mint)
              /\ b[Len(b)].is_token /\ ~b[Len(b)].frozen /\ b[Len(b)].is_writable
              /\ b[Len(b)].tok_owner # protocol_config.fee_wallet
              /\ Call(b, executor, now).err = "InvalidProtocolFeeRecipient"
         /\ \E c \in ExecuteAccounts(split_config, protocol_config) :
              /\ Len(c) > split_config.recipient_count
              /\ c[Len(c)].key = ATA(protocol_config.fee_wallet, split_config.mint)
              /\ ~c[Len(c)].is_writable
              /\ Call(c, executor, now).err = "InvalidProtocolFeeRecipient"

\* C12 (too few account references): an execute_split call on an existing
\* split that supplies no more account references than recipient_count fails
\* with InsufficientRemainingAccounts, transfers nothing and leaves the
\* record unchanged; a call that supplies more never fails with that error.
TooFewAccountsRejected ==
    \A executor \in Executors, now \in Times :
      \A remaining_accounts \in ExecuteAccounts(split_config, protocol_config) :
        LET r == Call(remaining_accounts, executor, now) IN
        (split_config.initialized /\ protocol_config.initialized) =>
          IF Len(remaining_accounts) <= split_config.recipient_count
          THEN /\ r.err = "InsufficientRemainingAccounts"
               /\ r.transfers = <<>>
               /\ r.config = split_config
               /\ VaultAfter(vault_amount, r.transfers) = vault_amount
          ELSE r.err # "InsufficientRemainingAccounts"

\* with funds to split and a liability to heal, the call that leaves out the
\* trailing account is refused, and so is the call with no account at all
TooFewAccountsWitness ==
    /\ AvailableAtStart > 0
    /\ Liabilities(split_config, MAX_RECIPIENTS) > 0
    /\ split_config.recipient_count = 2
    /\ \E executor \in Executors, now \in Times :
         /\ \E a \in ExecuteAccounts(split_config, protocol_config) :
              /\ Len(a) = split_config.recipient_count
              /\ \A i \in 1..Len(a) : ~Unavailable(a[i])
              /\ Call(a, executor, now).err = "InsufficientRemainingAccounts"
         /\ Call(<<>>, executor, now).err = "InsufficientRemainingAccounts"
         /\ \E b \in ExecuteAccounts(split_config, protocol_config) :
              Call(b, executor, now).err = Ok

\* C13 (the executor carries no weight): two execute_split calls made in the
\* same state with the same receiving accounts that differ in the executor
\* only both succeed or both fail with the same error, make the same
\* transfers and write the same record.
ExecutorCarriesNoWeight ==
    \A now \in Times :
      \A remaining_accounts \in ExecuteAccounts(split_config, protocol_config) :
        \A executor1, executor2 \in Executors :
          LET r1 == Call(remaining_accounts, executor1, now)
              r2 == Call(remaining_accounts, executor2, now)
          IN  /\ r1.err = r2.err
              /\ r1.transfers = r2.transfers
              /\ r1.config = r2.config
              /\ r1.event = [r2.event EXCEPT !.executor = r1.event.executor]

\* a wallet that is neither the split's authority, nor a recipient, nor the
\* fee wallet, nor the protocol authority executes a distribution that pays,
\* holds or heals
ExecutorCarriesNoWeightWitness ==
    \E executor \in Executors, now \in Times :
      \E remaining_accounts \in ExecuteAccounts(split_config, protocol_config) :
        LET r == Call(remaining_accounts, executor, now) IN
        /\ executor # split_config.authority
        /\ executor # protocol_config.authority
        /\ executor # protocol_config.fee_wallet
        /\ \A i \in 1..split_config.recipient_count :
              executor # split_config.recipients[i].address
        /\ r.err = Ok
        /\ r.transfers # <<>>
        /\ r.event.executor = executor

(***************************************************************************)
(* Properties of the split lifecycle                                       *)
(***************************************************************************)
\* C14 (recipient-table acceptance): with valid receiving accounts, create
\* (on a split that does not exist yet) and update (by the authority, on an
\* empty vault with no liabilities) accept a recipient list if and only if
\* its size is in 1..20, its shares sum to exactly 9900, no address is zero,
\* no share is zero and no address occurs twice; and a list of a size in
\* 1..20 fails the share-total check (InvalidSplitTotal) if and only if its
\* sum is not 9900.
TableAcceptance ==
    \A recipients \in Tables :
      /\ ~split_config.initialized =>
            \A authority \in SplitAuthorities, payer \in Wallets :
              LET r == CreateWith(recipients, authority, payer) IN
              /\ r.err = Ok <=> Acceptable(recipients)
              /\ r.err = "InvalidSplitTotal"
                    <=> (CountInRange(recipients) /\ ~TotalIsRequired(recipients))
      /\ Updatable =>
            LET r == UpdateWith(recipients) IN
            /\ r.err = Ok <=> Acceptable(recipients)
            /\ r.err = "InvalidSplitTotal"
                  <=> (CountInRange(recipients) /\ ~TotalIsRequired(recipients))

\* a split created from a table of 20 recipients, whose update accepts some
\* tables and refuses others, a table of 21 among them
TableAcceptanceWitness ==
    /\ Updatable
    /\ split_config.recipient_count = 20
    /\ \E a \in Tables : Len(a) = 1 /\ UpdateWith(a).err = Ok
    /\ \E b \in Tables : Len(b) = 21 /\ TotalIsRequired(b) /\ UpdateWith(b).err # Ok
    /\ \E c \in Tables :
         Len(c) = 2 /\ SumOfShares(c, 2) = 9900 + 65536 /\ UpdateWith(c).err # Ok

\* C15 (the error of each rule): a recipient list that breaks exactly one
\* validation rule is refused by create and by update with the error of that
\* rule, and the record stays as it was: size 0 or above 20 gives
\* InvalidRecipientCount, a sum other than 9900 InvalidSplitTotal, a zero
\* address ZeroAddress, a zero share ZeroPercentage, a repeated address
\* DuplicateRecipient.
OneBrokenRuleError ==
    \A recipients \in Tables :
      ErrorOfTheOnlyBrokenRule(recipients) # "none" =>
        /\ ~split_config.initialized =>
              \A authority \in SplitAuthorities, payer \in Wallets :
                LET r == CreateWith(recipients, authority, payer) IN
                /\ r.err = ErrorOfTheOnlyBrokenRule(recipients)
                /\ r.config = split_config
        /\ Updatable =>
              LET r == UpdateWith(recipients) IN
              /\ r.err = ErrorOfTheOnlyBrokenRule(recipients)
              /\ r.config = split_config

\* an existing split whose update is refused with each of the five errors,
\* twice for the size (no recipient, 21 recipients)
OneBrokenRuleWitness ==
    /\ Updatable
    /\ \A e \in {"InvalidRecipientCount", "InvalidSplitTotal", "ZeroAddress",
                  "ZeroPercentage", "DuplicateRecipient"} :
         \E recipients \in Tables :
           ErrorOfTheOnlyBrokenRule(recipients) = e /\ UpdateWith(recipients).err = e
    /\ UpdateWith(<<>>).err = "InvalidRecipientCount"
    /\ \E recipients \in Tables :
         /\ Len(recipients) = 21
         /\ ErrorOfTheOnlyBrokenRule(recipients) = "InvalidRecipientCount"
         /\ UpdateWith(recipients).err = "InvalidRecipientCount"

\* C16 (record invariant): in every reachable state of an existing split,
\* recipient_count is in 1..20, the first recipient_count recipient entries
\* have pairwise distinct non-zero addresses and non-zero shares that sum to
\* exactly 9900, and every recipient slot and every unclaimed slot after
\* them is the zero value.
RecordInvariant ==
    split_config.initialized =>
      LET n == split_config.recipient_count
          active == SubSeq(split_config.recipients, 1, n)
      IN  /\ n \in 1..20
          /\ Len(split_config.recipients) = 20
          /\ Len(split_config.unclaimed_amounts) = 20
          /\ NoZeroAddress(active)
          /\ NoZeroShare(active)
          /\ NoDuplicate(active)
          /\ SumOfShares(active, n) = 9900
          /\ \A i \in (n + 1)..20 :
                /\ split_config.recipients[i] = [address |-> 0, percentage_bps |-> 0]
                /\ split_config.unclaimed_amounts[i]
                     = [recipient |-> 0, amount |-> 0, timestamp |-> 0]

\* a split of two recipients after a distribution that held the share of the
\* second one
RecordInvariantWitness ==
    /\ split_config.initialized
    /\ split_config.last_activity > 0
    /\ split_config.recipient_count = 2
    /\ Liability(split_config, 2) > 0
    /\ split_config.unclaimed_amounts[2].recipient = split_config.recipients[2].address
    /\ split_config.unclaimed_amounts[1].timestamp > 0
    /\ Liability(split_config, 1) = 0

\* C17 (preconditions of update): an update of an existing split succeeds
\* only if the signer is the record's authority, the vault balance is 0 and
\* every active liability and protocol_unclaimed are 0; it fails with
\* Unauthorized for another signer, else with VaultNotEmpty for a non-zero
\* balance, else with UnclaimedNotEmpty for a non-zero liability; and a call
\* that fails so leaves the recipient table, recipient_count and the
\* liabilities as they were.  The vault balance is the current one, or 0 as
\* if the vault had been emptied from outside the program.
UpdatePreconditions ==
    \A authority \in Wallets, new_recipients \in RecipientLists :
      \A remaining_accounts \in ConfigAccounts(new_recipients, MINT) :
        \A vault_balance \in {vault_amount, 0} :
          LET r == update_split_config(split_config, vault_balance, authority,
                                       new_recipients, remaining_accounts)
          IN  split_config.initialized =>
                /\ r.err = Ok =>
                      /\ authority = split_config.authority
                      /\ vault_balance = 0
                      /\ ~HasLiability(split_config)
                /\ authority # split_config.authority => r.err = "Unauthorized"
                /\ (authority = split_config.authority /\ vault_balance # 0)
                      => r.err = "VaultNotEmpty"
                /\ ( /\ authority = split_config.authority
                      /\ vault_balance = 0
                      /\ HasLiability(split_config) )
                      => r.err = "UnclaimedNotEmpty"
                /\ r.err \in {"Unauthorized", "VaultNotEmpty", "UnclaimedNotEmpty"} =>
                      /\ r.config.recipients = split_config.recipients
                      /\ r.config.recipient_count = split_config.recipient_count
                      /\ r.config.unclaimed_amounts = split_config.unclaimed_amounts
                      /\ r.config.protocol_unclaimed = split_config.protocol_unclaimed

\* a split with a recipient liability and a held protocol fee in a funded
\* vault: a valid update is refused for a stranger, for the balance, and,
\* with the balance at 0, for the liabilities
UpdatePreconditionsWitness ==
    /\ split_config.initialized
    /\ vault_amount > 0
    /\ Liabilities(split_config, MAX_RECIPIENTS) > 0
    /\ split_config.protocol_unclaimed > 0
    /\ \E new_recipients \in ValidRecipientLists :
         LET accounts == ValidAccounts(new_recipients, MINT)
             stranger == OtherWallet(split_config.authority)
         IN  /\ update_split_config(split_config, vault_amount, stranger,
                                     new_recipients, accounts).err = "Unauthorized"
             /\ update_split_config(split_config, vault_amount, split_config.authority,
                                     new_recipients, accounts).err = "VaultNotEmpty"
             /\ update_split_config(split_config, 0, split_config.authority,
                                     new_recipients, accounts).err = "UnclaimedNotEmpty"

\* C18 (update replaces the table): after a successful update
\* recipient_count is the length of the new list, the first recipient_count
\* entries are the new list in order, every later recipient slot is zero,
\* all 20 unclaimed entries are zero, and authority, mint, vault, unique_id,
\* bump and rent_payer are what they were.
UpdateReplacesTable ==
    \A authority \in Wallets, new_recipients \in RecipientLists :
      \A remaining_accounts \in ConfigAccounts(new_recipients, MINT) :
        LET r == update_split_config(split_config, vault_amount, authority,
                                     new_recipients, remaining_accounts)
            n == Len(new_recipients)
        IN  r.err = Ok =>
              /\ r.config.recipient_count = n
              /\ \A i \in 1..n :
                    /\ r.config.recipients[i].address = new_recipients[i].address
                    /\ r.config.recipients[i].percentage_bps = new_recipients[i].percentage_bps
              /\ \A i \in (n + 1)..20 :
                    r.config.recipients[i] = [address |-> 0, percentage_bps |-> 0]
              /\ \A i \in 1..20 :
                    r.config.unclaimed_amounts[i] = [recipient |-> 0, amount |-> 0, timestamp |-> 0]
              /\ r.config.authority = split_config.authority
              /\ r.config.mint = split_config.mint
              /\ r.config.vault = split_config.vault
              /\ r.config.unique_id = split_config.unique_id
              /\ r.config.bump = split_config.bump
              /\ r.config.rent_payer = split_config.rent_payer

\* a split of two recipients, paid for by another wallet, whose unclaimed
\* entries still carry the trace of a healed liability, is updated to a
\* table of one recipient
UpdateReplacesTableWitness ==
    /\ split_config.initialized
    /\ split_config.recipient_count = 2
    /\ split_config.rent_payer # split_config.authority
    /\ split_config.bump # 0
    /\ \E i \in 1..2 : split_config.unclaimed_amounts[i] # UnclaimedAmountDefault
    /\ \E new_recipients \in ValidRecipientLists :
         /\ Len(new_recipients) = 1
         /\ update_split_config(split_config, vault_amount, split_config.authority,
                                 new_recipients, ValidAccounts(new_recipients, MINT)).err = Ok

\* C19 (close): closing an existing split fails with Unauthorized when the
\* signer is not the record's authority, else with VaultNotEmpty while the
\* vault balance is not 0, and, these and the rent destination being in
\* order, with UnclaimedNotEmpty while an active liability or
\* protocol_unclaimed is not 0; a failed close leaves the record and the
\* vault in place.  It succeeds, destroying the record and the vault, exactly
\* when the authority signs, the balance and all liabilities are 0 and the
\* named rent destination is the recorded rent_payer.  The vault balance is
\* the current one, or 0 as if the vault had been emptied from outside the
\* program.
CloseConditions ==
    \A authority \in Wallets, rent_destination \in Wallets :
      \A vault_balance \in {vault_amount, 0} :
        LET r == close_split_config(split_config, vault_balance, authority, rent_destination)
        IN  split_config.initialized =>
              /\ r.err = Ok <=>
                    /\ authority = split_config.authority
                    /\ vault_balance = 0
                    /\ ~HasLiability(split_config)
                    /\ rent_destination = split_config.rent_payer
              /\ authority # split_config.authority => r.err = "Unauthorized"
              /\ (authority = split_config.authority /\ vault_balance # 0)
                    => r.err = "VaultNotEmpty"
              /\ ( /\ authority = split_config.authority
                    /\ vault_balance = 0
                    /\ rent_destination = split_config.rent_payer
                    /\ HasLiability(split_config) )
                    => r.err = "UnclaimedNotEmpty"
              /\ r.err # Ok => (r.config = split_config /\ ~r.vault_closed)
              /\ r.err = Ok => (~r.config.initialized /\ r.vault_closed)

\* C19 as stated, without the rent destination: the authority closes an
\* existing split whose vault balance and liabilities are 0, whatever
\* destination the call names
CloseSucceedsOnceEmpty ==
    \A authority \in Wallets, rent_destination \in Wallets :
        ( /\ split_config.initialized
          /\ authority = split_config.authority
          /\ vault_amount = 0
          /\ ~HasLiability(split_config) )
        => close_split_config(split_config, vault_amount, authority,
                              rent_destination).err = Ok

\* a split that has distributed and whose vault and liabilities are back at
\* 0: the authority closes it to the rent payer, and neither a stranger nor
\* a close naming another destination gets through
CloseConditionsWitness ==
    /\ split_config.initialized
    /\ split_config.last_activity > 0
    /\ vault_amount = 0
    /\ ~HasLiability(split_config)
    /\ LET a == split_config.authority
           p == split_config.rent_payer
       IN  /\ close_split_config(split_config, vault_amount, a, p).err = Ok
           /\ close_split_config(split_config, vault_amount, a, p).vault_closed
           /\ close_split_config(split_config, vault_amount, OtherWallet(a), p).err = "Unauthorized"
           /\ close_split_config(split_config, vault_amount, a, OtherWallet(p)).err # Ok

\* C20 (rent goes to the rent payer): create records its payer, who funds
\* the record and the vault, as rent_payer; a successful close credits the
\* storage deposits of the vault and of the record to that rent_payer and to
\* nobody else, so nothing is credited to the authority when the two differ;
\* and a close by the authority of an emptied split that names another
\* destination fails with InvalidRentDestination.
RentReturnsToPayer ==
    /\ \A authority \in SplitAuthorities, payer \in Wallets :
        \A recipients \in ValidRecipientLists :
          LET c == create_split_config(split_config, authority, payer, UNIQUE_ID, MINT,
                                       recipients, ValidAccounts(recipients, MINT))
          IN  c.err = Ok => c.config.rent_payer = payer
    /\ \A authority \in Wallets, rent_destination \in Wallets :
          LET r == close_split_config(split_config, vault_amount, authority, rent_destination)
          IN  split_config.initialized =>
                /\ r.err = Ok =>
                      /\ {r.rent[i].account : i \in 1..Len(r.rent)} = {"vault", "split_config"}
                      /\ Len(r.rent) = 2
                      /\ \A i \in 1..Len(r.rent) :
                            r.rent[i].destination = split_config.rent_payer
                      /\ split_config.rent_payer # authority =>
                            \A i \in 1..Len(r.rent) : r.rent[i].destination # authority
                /\ ( /\ authority = split_config.authority
                      /\ vault_amount = 0
                      /\ rent_destination # split_config.rent_payer )
                      => r.err = "InvalidRentDestination"
                /\ r.err # Ok => r.rent = <<>>

\* a split paid for by a wallet other than its authority is closed by the
\* authority: the deposits go to the payer, and naming the authority as
\* destination is refused
RentReturnsToPayerWitness ==
    /\ split_config.initialized
    /\ split_config.rent_payer # split_config.authority
    /\ LET a == split_config.authority
           r == close_split_config(split_config, vault_amount, a, split_config.rent_payer)
       IN  /\ r.err = Ok
           /\ Len(r.rent) = 2
           /\ r.rent[1].destination = split_config.rent_payer
           /\ close_split_config(split_config, vault_amount, a, a).err = "InvalidRentDestination"

(***************************************************************************)
(* Properties of the protocol configuration                                *)
(***************************************************************************)
\* C21 (accept): on an existing ProtocolConfig, accept_protocol_authority
\* succeeds exactly when a handover is pending and the signer is the pending
\* candidate, and then the signer is the authority and pending_authority is
\* the zero address; with no handover pending it fails with
\* NoPendingTransfer, with another signer than the candidate (the current
\* authority included) with Unauthorized, and a failed call changes nothing.
AcceptByCandidateOnly ==
    \A new_authority \in Wallets :
        LET pc == protocol_config
            r == accept_protocol_authority(pc, new_authority)
        IN  pc.initialized =>
              /\ r.err = Ok <=>
                    (pc.pending_authority # 0 /\ new_authority = pc.pending_authority)
              /\ r.err = Ok =>
                    /\ r.pc.authority = new_authority
                    /\ r.pc.pending_authority = 0
                    /\ r.pc.fee_wallet = pc.fee_wallet
              /\ pc.pending_authority = 0 => r.err = "NoPendingTransfer"
              /\ (pc.pending_authority # 0 /\ new_authority # pc.pending_authority)
                    => r.err = "Unauthorized"
              /\ r.err # Ok => r.pc = pc

\* a handover to another wallet is pending: the candidate's accept goes
\* through and the current authority's is refused
AcceptByCandidateOnlyWitness ==
    /\ protocol_config.initialized
    /\ protocol_config.pending_authority # 0
    /\ protocol_config.pending_authority # protocol_config.authority
    /\ accept_protocol_authority(protocol_config,
                                 protocol_config.pending_authority).err = Ok
    /\ accept_protocol_authority(protocol_config,
                                 protocol_config.authority).err = "Unauthorized"

\* C22 (propose): on an existing ProtocolConfig,
\* transfer_protocol_authority succeeds exactly when the signer is the
\* current authority, and fails with Unauthorized and no change otherwise;
\* on success pending_authority is the given address, whatever it was before
\* (an earlier candidate is overwritten, the zero address cancels), and
\* authority and fee_wallet are unchanged.
ProposeByAuthorityOnly ==
    \A authority \in Wallets, new_authority \in AddressChoices :
        LET pc == protocol_config
            r == transfer_protocol_authority(pc, authority, new_authority)
        IN  pc.initialized =>
              /\ r.err = Ok <=> authority = pc.authority
              /\ r.err = Ok =>
                    /\ r.pc.pending_authority = new_authority
                    /\ r.pc.authority = pc.authority
                    /\ r.pc.fee_wallet = pc.fee_wallet
              /\ authority # pc.authority => (r.err = "Unauthorized" /\ r.pc = pc)

\* a handover is pending: the authority names another candidate, or cancels
\* with the zero address, and the pending candidate cannot propose
ProposeByAuthorityOnlyWitness ==
    /\ protocol_config.initialized
    /\ protocol_config.pending_authority # 0
    /\ protocol_config.pending_authority # protocol_config.authority
    /\ LET pc == protocol_config
           other == OtherWallet(pc.pending_authority)
       IN  /\ transfer_protocol_authority(pc, pc.authority, other).pc.pending_authority = other
           /\ transfer_protocol_authority(pc, pc.authority, 0).pc.pending_authority = 0
           /\ transfer_protocol_authority(pc, pc.pending_authority, other).err = "Unauthorized"

\* C23 (two-step handover): once ProtocolConfig exists, a step of any
\* operation changes its authority only if that step is an
\* accept_protocol_authority signed by the address that was pending_authority
\* before the step; and the authority of an existing ProtocolConfig is never
\* the zero address.
HandoverSafety ==
    /\ [](protocol_config.initialized => protocol_config.authority # 0)
    /\ [][ ( /\ protocol_config.initialized
             /\ protocol_config'.authority # protocol_config.authority )
           => \E new_authority \in Wallets :
                /\ new_authority = protocol_config.pending_authority
                /\ accept_protocol_authority(protocol_config, new_authority).err = Ok
                /\ protocol_config' = accept_protocol_authority(protocol_config, new_authority).pc
                /\ protocol_config'.authority = new_authority ]_vars

\* the authority is no longer the wallet that initialized the protocol, after
\* a handover, while a split exists and holds funds
HandoverSafetyWitness ==
    /\ protocol_config.initialized
    /\ protocol_config.authority # UPGRADE_AUTHORITY
    /\ protocol_config.pending_authority = UPGRADE_AUTHORITY
    /\ split_config.initialized
    /\ vault_amount > 0

\* C24 (initialize once): initialize_protocol on a ProtocolConfig that does
\* not exist yet, when it succeeds, creates it with the signer as authority,
\* the zero address as pending_authority and the given fee_wallet, which is
\* not the zero address (a zero fee_wallet, with the ProgramData account
\* owned by the loader, fails with ZeroAddress); on an existing ProtocolConfig
\* it always fails and changes nothing; and no step of any operation makes
\* an existing ProtocolConfig cease to exist.
InitializeOnce ==
    /\ [](\A authority \in Wallets, fee_wallet \in AddressChoices :
          \A program_data \in ProgramDataChoices :
            LET pc == protocol_config
                r == initialize_protocol(pc, authority, fee_wallet, program_data)
            IN  /\ pc.initialized => (r.err # Ok /\ r.pc = pc)
                /\ (~pc.initialized /\ r.err = Ok) =>
                      /\ r.pc.initialized
                      /\ r.pc.authority = authority
                      /\ r.pc.pending_authority = 0
                      /\ r.pc.fee_wallet = fee_wallet
                      /\ fee_wallet # 0
                /\ (~pc.initialized /\ fee_wallet = 0 /\ program_data.owned_by_loader)
                      => (r.err = "ZeroAddress" /\ r.pc = pc))
    /\ [][protocol_config.initialized => protocol_config'.initialized]_vars

\* after a handover the deploying wallet, no longer the authority, calls
\* initialize_protocol again with valid inputs and is refused
InitializeOnceWitness ==
    /\ protocol_config.initialized
    /\ protocol_config.authority # UPGRADE_AUTHORITY
    /\ protocol_config.fee_wallet # UPGRADE_AUTHORITY
    /\ initialize_protocol(protocol_config, UPGRADE_AUTHORITY, UPGRADE_AUTHORITY,
                           ProgramData(TRUE, TRUE, TRUE, UPGRADE_AUTHORITY)).err
         = "AccountAlreadyInUse"

\* C25 (fee wallet update): on an existing ProtocolConfig,
\* update_protocol_config succeeds exactly when the signer is the current
\* authority and the new fee wallet is not the zero address; another signer
\* gets Unauthorized, the authority with the zero address ZeroAddress, and a
\* failed call changes nothing; on success fee_wallet is the new wallet and
\* authority and pending_authority are what they were; and the fee_wallet of
\* an existing ProtocolConfig is never the zero address.
FeeWalletUpdate ==
    /\ protocol_config.initialized => protocol_config.fee_wallet # 0
    /\ \A authority \in Wallets, new_fee_wallet \in AddressChoices :
        LET pc == protocol_config
            r == update_protocol_config(pc, authority, new_fee_wallet)
        IN  pc.initialized =>
              /\ r.err = Ok <=> (authority = pc.authority /\ new_fee_wallet # 0)
              /\ authority # pc.authority => r.err = "Unauthorized"
              /\ (authority = pc.authority /\ new_fee_wallet = 0) => r.err = "ZeroAddress"
              /\ r.err # Ok => r.pc = pc
              /\ r.err = Ok =>
                    /\ r.pc.fee_wallet = new_fee_wallet
                    /\ r.pc.authority = pc.authority
                    /\ r.pc.pending_authority = pc.pending_authority
                    /\ r.pc.initialized

\* while a handover to another wallet is pending, the authority moves the
\* fee wallet and the pending candidate stays; the candidate is refused
FeeWalletUpdateWitness ==
    /\ protocol_config.initialized
    /\ protocol_config.pending_authority # 0
    /\ protocol_config.pending_authority # protocol_config.authority
    /\ LET pc == protocol_config
           w == OtherWallet(pc.fee_wallet)
       IN  /\ update_protocol_config(pc, pc.authority, w).err = Ok
           /\ update_protocol_config(pc, pc.authority, w).pc.fee_wallet = w
           /\ update_protocol_config(pc, pc.authority, w).pc.pending_authority
                = pc.pending_authority
           /\ update_protocol_config(pc, pc.pending_authority, w).err = "Unauthorized"

(***************************************************************************)
(* Properties of the share arithmetic                                      *)
(***************************************************************************)
\* C26 (share math): for a total (any of ShareTotals, and the balance the
\* vault holds) and a share in basis points, calculate_recipient_amount is
\* floor(total * bps / 10000) whenever that fits in u64 and the overflow
\* result exactly when it does not; for bps <= 10000 it never overflows and
\* is at most total, share(u64::MAX, 10000) = u64::MAX, and it is 0 when
\* total * bps < 10000.
ShareMath ==
    /\ calculate_recipient_amount(U64_MAX, 10000) = U64_MAX
    /\ \A p \in ShareInputs \cup {q \in {vault_amount} \X ShareBps : q \in ShareInputs
                                                                   \/ q[2] # U16_MAX} :
        LET total == p[1]
            bps == p[2]
            amount == calculate_recipient_amount(total, bps)
        IN  /\ amount = None <=> total * bps >= 10000 * (U64_MAX + 1)
            /\ amount # None =>
                  /\ amount \in 0..U64_MAX
                  /\ 10000 * amount <= total * bps
                  /\ total * bps < 10000 * (amount + 1)
            /\ bps <= 10000 => (amount # None /\ amount <= total)
            /\ total * bps < 10000 => amount = 0

\* a vault holding u64::MAX: the share of 100.01% overflows, and a call pays
\* the first recipient its share, rounded down, of the whole balance
ShareMathWitness ==
    /\ vault_amount = U64_MAX
    /\ AvailableAtStart = U64_MAX
    /\ calculate_recipient_amount(vault_amount, 10001) = None
    /\ calculate_recipient_amount(vault_amount, 9999) = U64_MAX - 7
    /\ \E executor \in Executors, now \in Times :
         \E remaining_accounts \in ExecuteAccounts(split_config, protocol_config) :
           LET r == Call(remaining_accounts, executor, now)
               bps == split_config.recipients[1].percentage_bps
           IN  /\ r.err = Ok
               /\ SentTo(r.transfers, {"share"}, 1)
                    = calculate_recipient_amount(vault_amount, bps)
               /\ 10000 * SentTo(r.transfers, {"share"}, 1) < vault_amount * bps

ZeroShareSkipped ==
    (split_config.initialized /\ protocol_config.initialized) =>
      \A executor \in Executors, now \in Times :
        /\ \A remaining_accounts \in ExecuteAccounts(split_config, protocol_config) :
              LET r == Call(remaining_accounts, executor, now)
              IN  r.err = Ok =>
                    \A i \in 1..split_config.recipient_count :
                      LET old == split_config.unclaimed_amounts[i]
                          new == r.config.unclaimed_amounts[i]
                      IN  Share(i) = 0 =>
                            /\ SentTo(r.transfers, {"share"}, i) = 0
                            /\ NewlyHeld(r, i) = 0
                            /\ new.timestamp = old.timestamp
                            /\ new.recipient = old.recipient
                            /\ new.amount = old.amount - SentTo(r.transfers, {"heal"}, i)
                            /\ Sent(r.transfers, {"fee"}) + FeeAccrued(r) = Fee
        /\ \A i \in 1..split_config.recipient_count :
              (Share(i) = 0 /\ Liability(split_config, i) = 0) =>
                \A empty \in BOOLEAN :
                  \A x \in GoodAt(split_config, protocol_config, i)
                            \cup BadAt(split_config, protocol_config, i) :
                    LET others == Uniform(split_config, protocol_config,
                                          split_config.recipient_count + 1, empty)
                    IN  Call([others EXCEPT ![i] = x], executor, now)
                          = Call(others, executor, now)

\* funds are available, one recipient's share of them rounds to 0, and the
\* call succeeds with an invalid account in that recipient's position, the
\* fee taking what the shares leave
ZeroShareSkippedWitness ==
    /\ split_config.initialized
    /\ AvailableAtStart > 0
    /\ \E i \in 1..split_config.recipient_count :
         /\ Share(i) = 0
         /\ Liability(split_config, i) = 0
         /\ \E executor \in Executors, now \in Times :
              \E remaining_accounts \in ExecuteAccounts(split_config, protocol_config) :
                LET r == Call(remaining_accounts, executor, now)
                IN  /\ Len(remaining_accounts) > split_config.recipient_count
                    /\ remaining_accounts[i] \in BadAt(split_config, protocol_config, i)
                    /\ r.err = Ok
                    /\ r.config.unclaimed_amounts[i] = split_config.unclaimed_amounts[i]
                    /\ Sent(r.transfers, {"fee"}) + FeeAccrued(r) = Fee
                    /\ Fee > 0

HealingAndInvalidAccounts ==
    \A executor \in Executors, now \in Times :
      \A remaining_accounts \in ExecuteAccounts(split_config, protocol_config) :
        LET r == Call(remaining_accounts, executor, now)
            n == split_config.recipient_count
            mint == split_config.mint
            owner(i) == split_config.recipients[i].address
            last == remaining_accounts[Len(remaining_accounts)]
            in_order(i) == \/ Unavailable(remaining_accounts[i])
                           \/ /\ Canonical(remaining_accounts[i], owner(i), mint)
                              /\ remaining_accounts[i].is_writable
        IN  ( /\ split_config.initialized /\ protocol_config.initialized
              /\ Len(remaining_accounts) > n )
            => /\ ( /\ split_config.protocol_unclaimed > 0
                     /\ ~Unavailable(last)
                     /\ ~TokenAccountOf(last, protocol_config.fee_wallet, mint) )
                  => /\ (Fee = 0 /\ \A i \in 1..n : in_order(i)) => r.err = Ok
                     /\ r.err = Ok =>
                           /\ Sent(r.transfers, {"protocol_heal"}) = 0
                           /\ r.config.protocol_unclaimed = split_config.protocol_unclaimed
               /\ \A i \in 1..n :
                     ( /\ Liability(split_config, i) > 0
                       /\ ~Unavailable(remaining_accounts[i])
                       /\ ~Canonical(remaining_accounts[i], owner(i), mint) )
                     => /\ r.err # Ok
                        /\ r.config = split_config
                        /\ r.transfers = <<>>
                        /\ [Uniform(split_config, protocol_config, Len(remaining_accounts), FALSE)
                                EXCEPT ![i] = remaining_accounts[i]] = remaining_accounts
                             => r.err \in {"RecipientATAInvalid", "InvalidTokenProgram",
                                           "RecipientATAWrongOwner", "RecipientATAWrongMint"}

\* C30 as stated, for a recipient: nothing is available, every other account
\* is in order, and the account of a recipient with a liability is a present,
\* unfrozen token account at the right address that records another owner or
\* another asset; the call succeeds, transfers nothing to it and leaves its
\* liability as it was
HealingSilentOnInvalid ==
    \A executor \in Executors, now \in Times :
      \A i \in 1..split_config.recipient_count :
        \A x \in BadAt(split_config, protocol_config, i) :
          LET n == split_config.recipient_count
              r == Call([Uniform(split_config, protocol_config, n + 1, FALSE) EXCEPT ![i] = x],
                        executor, now)
          IN  ( /\ split_config.initialized /\ protocol_config.initialized
                /\ AvailableAtStart = 0
                /\ Liability(split_config, i) > 0
                /\ x.is_token /\ ~x.frozen /\ x.owner = TOKEN_ID /\ x.is_writable
                /\ x.key = ATA(split_config.recipients[i].address, split_config.mint)
                /\ \/ x.tok_owner # split_config.recipients[i].address
                   \/ x.tok_mint # split_config.mint )
              => /\ r.err = Ok
                 /\ SentTo(r.transfers, {"heal"}, i) = 0
                 /\ Liability(r.config, i) = Liability(split_config, i)

\* the vault holds exactly a recipient liability and a held fee: with a
\* token account of another owner in the trailing position the call succeeds
\* and protocol_unclaimed stays, with one in the recipient's position the
\* call fails with RecipientATAWrongOwner
HealingAndInvalidAccountsWitness ==
    /\ split_config.initialized
    /\ AvailableAtStart = 0
    /\ split_config.protocol_unclaimed > 0
    /\ \E i \in 1..split_config.recipient_count :
         /\ Liability(split_config, i) > 0
         /\ \E executor \in Executors, now \in Times :
              LET n == split_config.recipient_count
                  mint == split_config.mint
                  good == Uniform(split_config, protocol_config, n + 1, FALSE)
                  wrong(owner) == TokenAccount(ATA(owner, mint), OtherWallet(owner), mint,
                                               FALSE, TRUE)
                  p == Call([good EXCEPT ![n + 1] = wrong(protocol_config.fee_wallet)],
                            executor, now)
                  q == Call([good EXCEPT ![i] = wrong(split_config.recipients[i].address)],
                            executor, now)
              IN  /\ p.err = Ok
                  /\ p.config.protocol_unclaimed = split_config.protocol_unclaimed
                  /\ Sent(p.transfers, {"protocol_heal"}) = 0
                  /\ Sent(p.transfers, {"heal"}) > 0
                  /\ q.err = "RecipientATAWrongOwner"

(***************************************************************************)
(* Properties that span several operations                                 *)
(***************************************************************************)
\* the signer may propose a handover and update the fee wallet
Privileged(pc, signer) ==
    /\ \A new_authority \in AddressChoices :
         transfer_protocol_authority(pc, signer, new_authority).err = Ok
    /\ \A new_fee_wallet \in Wallets :
         update_protocol_config(pc, signer, new_fee_wallet).err = Ok
\* both operations refuse the signer with Unauthorized, whatever the argument
Unprivileged(pc, signer) ==
    /\ \A new_authority \in AddressChoices :
         transfer_protocol_authority(pc, signer, new_authority).err = "Unauthorized"
    /\ \A new_fee_wallet \in AddressChoices :
         update_protocol_config(pc, signer, new_fee_wallet).err = "Unauthorized"

\* C31 (privileges follow the authority field): in every state of every
\* operation sequence with an existing ProtocolConfig, the address stored in
\* authority can propose a handover (to any address) and update the fee
\* wallet (to any non-zero address), and every other address, a pending
\* candidate included, is refused by both with Unauthorized; after a step
\* that moves the authority to another address (a successful accept) the
\* previous authority is refused by both with Unauthorized; and after a step
\* that replaces or clears a pending candidate, that candidate's accept fails
\* (NoPendingTransfer when cleared, Unauthorized when replaced).  A handover
\* to the authority itself moves nothing: the address is still the one
\* stored and keeps its privileges.
PrivilegesFollowAuthority ==
    /\ [](protocol_config.initialized =>
            \A signer \in Wallets :
                IF signer = protocol_config.authority
                THEN Privileged(protocol_config, signer)
                ELSE Unprivileged(protocol_config, signer))
    /\ [][ /\ ( /\ protocol_config.initialized
                /\ protocol_config'.authority # protocol_config.authority )
              => /\ Unprivileged(protocol_config', protocol_config.authority)
                 /\ Privileged(protocol_config', protocol_config.pending_authority)
           /\ ( /\ protocol_config.initialized
                /\ protocol_config.pending_authority # DefaultPubkey
                /\ protocol_config'.pending_authority # protocol_config.pending_authority )
              => accept_protocol_authority(protocol_config',
                                           protocol_config.pending_authority).err
                   = IF protocol_config'.pending_authority = DefaultPubkey
                     THEN "NoPendingTransfer" ELSE "Unauthorized" ]_vars

\* after a handover away from the initializing wallet, with the next
\* handover pending back to it: the new authority holds the privileges, the
\* previous authority, now the candidate, holds none until it accepts
PrivilegesFollowAuthorityWitness ==
    /\ protocol_config.initialized
    /\ protocol_config.authority = OtherWallet(UPGRADE_AUTHORITY)
    /\ protocol_config.pending_authority = UPGRADE_AUTHORITY
    /\ Privileged(protocol_config, protocol_config.authority)
    /\ Unprivileged(protocol_config, UPGRADE_AUTHORITY)
    /\ accept_protocol_authority(protocol_config, UPGRADE_AUTHORITY).err = Ok

\* C32 (handover to oneself): on an existing ProtocolConfig, whatever
\* candidate is pending, the authority proposing itself succeeds and leaves
\* pending_authority equal to authority; the accept signed by that same
\* address then succeeds, authority and fee_wallet are what they were and
\* pending_authority is the zero address.
HandoverToSelf ==
    protocol_config.initialized =>
        LET pc == protocol_config
            p == transfer_protocol_authority(pc, pc.authority, pc.authority)
            a == accept_protocol_authority(p.pc, pc.authority)
        IN  /\ p.err = Ok
            /\ p.pc.pending_authority = pc.authority
            /\ p.pc.authority = pc.authority
            /\ a.err = Ok
            /\ a.pc.authority = pc.authority
            /\ a.pc.pending_authority = DefaultPubkey
            /\ a.pc.fee_wallet = pc.fee_wallet

\* the authority has proposed itself and the handover is pending: its accept
\* goes through and changes pending_authority only
HandoverToSelfWitness ==
    /\ protocol_config.initialized
    /\ protocol_config.pending_authority = protocol_config.authority
    /\ LET a == accept_protocol_authority(protocol_config, protocol_config.authority)
       IN  /\ a.err = Ok
           /\ a.pc = [protocol_config EXCEPT !.pending_authority = DefaultPubkey]

(***************************************************************************)
(* Validation precedence                                                   *)
(***************************************************************************)
\* the rule entry i of a table breaks, in the order of the claim: zero
\* address, zero share, duplicate of a later entry
EntryFault(recipients, i) ==
    IF recipients[i].address = DefaultPubkey THEN "ZeroAddress"
    ELSE IF recipients[i].percentage_bps = 0 THEN "ZeroPercentage"
    ELSE IF \E j \in 1..Len(recipients) : j > i /\ recipients[j].address = recipients[i].address
         THEN "DuplicateRecipient"
    ELSE Ok
\* the check a receiving account fails, in the order of the claim: missing,
\* wrong token program, (not a token account,) wrong owner, wrong asset
AccountFault(account, owner, mint) ==
    IF account.data_is_empty THEN "RecipientATADoesNotExist"
    ELSE IF account.owner \notin {TOKEN_ID, TOKEN_2022_ID} THEN "InvalidTokenProgram"
    ELSE IF ~account.is_token THEN "RecipientATAInvalid"
    ELSE IF account.tok_owner # owner THEN "RecipientATAWrongOwner"
    ELSE IF account.tok_mint # mint THEN "RecipientATAWrongMint"
    ELSE Ok
\* the first violation in the fixed order of the claim, Ok when there is none
FirstViolation(recipients, accounts, mint) ==
    LET n == Len(recipients)
        entries == {i \in 1..n : EntryFault(recipients, i) # Ok}
        supplied == {i \in 1..n : i <= Len(accounts)}
        faulty == {i \in supplied :
                     AccountFault(accounts[i], recipients[i].address, mint) # Ok}
        least(S) == CHOOSE i \in S : \A j \in S : i <= j
    IN  IF ~CountInRange(recipients) THEN "InvalidRecipientCount"
        ELSE IF ~TotalIsRequired(recipients) THEN "InvalidSplitTotal"
        ELSE IF entries # {} THEN EntryFault(recipients, least(entries))
        ELSE IF Len(accounts) < n THEN "InsufficientRemainingAccounts"
        ELSE IF faulty # {}
             THEN AccountFault(accounts[least(faulty)], recipients[least(faulty)].address, mint)
        ELSE Ok
\* how many of the rule groups a call breaks: count, total, some entry, the
\* number of accounts, some supplied account
Violations(recipients, accounts, mint) ==
    LET n == Len(recipients)
        b(x) == IF x THEN 1 ELSE 0
    IN  b(~CountInRange(recipients)) + b(~TotalIsRequired(recipients))
        + b(\E i \in 1..n : EntryFault(recipients, i) # Ok)
        + b(Len(accounts) < n)
        + b(\E i \in 1..n : /\ i <= Len(accounts)
                            /\ AccountFault(accounts[i], recipients[i].address, mint) # Ok)

\* C33 (validation precedence): for every table and list of receiving
\* accounts, create_split_config on a record that does not exist yet, and
\* update_split_config signed by the authority on a record with an empty
\* vault and no liabilities, report the first violation in this order:
\* recipient count, share total, then entry by entry in list order (zero
\* address, zero share, duplicate of a later entry), then the number of
\* supplied accounts, then account by account in list order (missing, wrong
\* token program, not a token account, wrong owner, wrong asset); the call
\* succeeds only when there is no violation, and a call that reports one
\* leaves every field of the record as it was.
ValidationPrecedence ==
    \A c \in PrecedenceCases :
        LET recipients == c[1]
            accounts == c[2]
            expected == FirstViolation(recipients, accounts, MINT)
        IN  /\ ~split_config.initialized =>
                  \A authority \in SplitAuthorities :
                      LET r == create_split_config(split_config, authority, authority,
                                                   UNIQUE_ID, MINT, recipients, accounts)
                      IN  /\ r.err = expected
                          /\ r.err # Ok => r.config = split_config
            /\ (split_config.initialized /\ Updatable /\ split_config.mint = MINT) =>
                  LET r == update_split_config(split_config, vault_amount,
                                               split_config.authority, recipients, accounts)
                  IN  /\ r.err = expected
                      /\ r.err # Ok => r.config = split_config

\* a record that update accepts: a table with a duplicated address whose
\* second entry has a zero share is refused as DuplicateRecipient, a table of
\* 21 entries with a zero address as InvalidRecipientCount, and a first
\* account of another owner and asset, with the last account left out, as
\* InsufficientRemainingAccounts; each of these calls breaks several rules
ValidationPrecedenceWitness ==
    /\ split_config.initialized
    /\ Updatable
    /\ split_config.mint = MINT
    /\ \E c \in PrecedenceCases :
         /\ Violations(c[1], c[2], MINT) >= 2
         /\ c[1] = <<R(1, 9900), R(1, 0)>>
         /\ update_split_config(split_config, vault_amount, split_config.authority,
                                c[1], c[2]).err = "DuplicateRecipient"
    /\ \E c \in PrecedenceCases :
         /\ Violations(c[1], c[2], MINT) >= 2
         /\ Len(c[1]) = MAX_RECIPIENTS + 1
         /\ c[1][1].address = DefaultPubkey
         /\ update_split_config(split_config, vault_amount, split_config.authority,
                                c[1], c[2]).err = "InvalidRecipientCount"
    /\ \E c \in PrecedenceCases :
         /\ Violations(c[1], c[2], MINT) >= 2
         /\ Acceptable(c[1])
         /\ update_split_config(split_config, vault_amount, split_config.authority,
                                c[1], c[2]).err = "InsufficientRemainingAccounts"
    /\ \E c \in PrecedenceCases :
         /\ Acceptable(c[1])
         /\ AccountFault(c[2][1], c[1][1].address, MINT) # Ok
         /\ AccountFault(c[2][Len(c[2])], c[1][Len(c[1])].address, MINT) # Ok
         /\ Len(c[1]) = 2 /\ Len(c[2]) = 2
         /\ update_split_config(split_config, vault_amount, split_config.authority,
                                c[1], c[2]).err = "RecipientATAWrongMint"

(***************************************************************************)
(* Balance of the vault after a distribution                               *)
(***************************************************************************)
\* C34 (nothing undistributed): after every execute_split call that succeeds
\* the vault balance equals the sum of the per-recipient liabilities plus
\* protocol_unclaimed of the record the call leaves; and when every
\* recipient's account and the protocol account are the owners' existing,
\* unfrozen token accounts the call succeeds and leaves the vault and every
\* liability at 0, so that update_split_config and close_split_config, made
\* by the authority (close with the rent payer as destination), succeed.
NothingLeftBehind ==
    \A executor \in Executors, now \in Times :
      /\ \A remaining_accounts \in ExecuteAccounts(split_config, protocol_config) :
           LET r == Call(remaining_accounts, executor, now) IN
           r.err = Ok =>
               VaultAfter(vault_amount, r.transfers)
                 = Liabilities(r.config, MAX_RECIPIENTS) + r.config.protocol_unclaimed
      /\ (split_config.initialized /\ protocol_config.initialized) =>
           LET n == split_config.recipient_count
               r == Call(Uniform(split_config, protocol_config, n + 1, FALSE), executor, now)
               after == VaultAfter(vault_amount, r.transfers)
               table == <<R(1, 9900)>>
           IN  /\ r.err = Ok
               /\ after = 0
               /\ Liabilities(r.config, MAX_RECIPIENTS) = 0
               /\ r.config.protocol_unclaimed = 0
               /\ update_split_config(r.config, after, r.config.authority, table,
                                      ValidAccounts(table, r.config.mint)).err = Ok
               /\ close_split_config(r.config, after, r.config.authority,
                                     r.config.rent_payer).err = Ok

\* the vault holds a recipient liability, a held fee and a fresh deposit: a
\* call with the protocol account missing leaves exactly the liabilities in
\* the vault, a call with every account in place empties it
NothingLeftBehindWitness ==
    /\ split_config.initialized
    /\ split_config.protocol_unclaimed > 0
    /\ Liabilities(split_config, MAX_RECIPIENTS) > 0
    /\ AvailableAtStart > 0
    /\ \E executor \in Executors, now \in Times :
         LET n == split_config.recipient_count
             good == Uniform(split_config, protocol_config, n + 1, FALSE)
             missing == EmptyAccount(ATA(protocol_config.fee_wallet, split_config.mint))
             p == Call([good EXCEPT ![n + 1] = missing], executor, now)
             q == Call(good, executor, now)
         IN  /\ p.err = Ok
             /\ VaultAfter(vault_amount, p.transfers) = p.config.protocol_unclaimed
             /\ p.config.protocol_unclaimed > split_config.protocol_unclaimed
             /\ q.err = Ok
             /\ VaultAfter(vault_amount, q.transfers) = 0
             /\ SumAmounts(q.transfers, 1) = vault_amount

(***************************************************************************)
(* Liabilities and the empty vault                                         *)
(***************************************************************************)
\* C35 (an empty vault carries no liability): in every state reachable by
\* the program's operations and deposits, a vault balance of 0 implies that
\* every per-recipient liability and protocol_unclaimed are 0; no slot at or
\* beyond recipient_count carries a liability; and no update_split_config or
\* close_split_config call, whoever signs it and whatever it is given,
\* returns UnclaimedNotEmpty: a record with a liability has a funded vault and
\* is refused as VaultNotEmpty when the authority calls.
EmptyVaultHasNoLiability ==
    /\ vault_amount = 0 =>
          /\ \A i \in 1..MAX_RECIPIENTS : Liability(split_config, i) = 0
          /\ split_config.protocol_unclaimed = 0
    /\ \A i \in 1..MAX_RECIPIENTS :
          i > split_config.recipient_count => Liability(split_config, i) = 0
    /\ \A authority \in Wallets :
          /\ \A new_recipients \in RecipientLists :
               \A remaining_accounts \in ConfigAccounts(new_recipients, MINT) :
                 LET r == update_split_config(split_config, vault_amount, authority,
                                              new_recipients, remaining_accounts)
                 IN  /\ r.err # "UnclaimedNotEmpty"
                     /\ (HasLiability(split_config) /\ authority = split_config.authority)
                           => r.err = "VaultNotEmpty"
          /\ \A rent_destination \in Wallets :
               LET r == close_split_config(split_config, vault_amount, authority,
                                           rent_destination)
               IN  /\ r.err # "UnclaimedNotEmpty"
                   /\ (HasLiability(split_config) /\ authority = split_config.authority)
                         => r.err = "VaultNotEmpty"

\* a table of two recipients, the vault holding exactly a liability of the
\* second recipient and a held fee: update and close by the authority are
\* refused for the funded vault
EmptyVaultHasNoLiabilityWitness ==
    /\ split_config.initialized
    /\ split_config.recipient_count = 2
    /\ Liability(split_config, 2) > 0
    /\ split_config.protocol_unclaimed > 0
    /\ vault_amount = Liability(split_config, 2) + split_config.protocol_unclaimed
    /\ UpdateWith(<<R(1, 9900)>>).err = "VaultNotEmpty"
    /\ close_split_config(split_config, vault_amount, split_config.authority,
                          split_config.rent_payer).err = "VaultNotEmpty"

(***************************************************************************)
(* Entitlements of the recipients                                          *)
(***************************************************************************)
\* floor(available * bps_i / 10000) for a call made on `config` with the
\* vault holding `balance`
ShareOf(config, balance, i) ==
    ((balance - Liabilities(config, config.recipient_count) - config.protocol_unclaimed)
        * config.recipients[i].percentage_bps) \div 10000
\* what the transfers of a call paid to recipient i, as share or as healing
PaidTo(transfers, i) == SentTo(transfers, {"share", "heal"}, i)
\* account lists of a call that follows another: every account existing,
\* every account missing, and the first recipient's account alone missing
FollowUpAccounts(config, pc) ==
    LET n == config.recipient_count
        present == Uniform(config, pc, n + 1, FALSE)
        missing == Uniform(config, pc, n + 1, TRUE)
    IN  {present, missing, [present EXCEPT ![1] = missing[1]]}

\* C36 (per-recipient entitlement conservation): for every execute_split
\* call that succeeds and every recipient i, what the call pays to i plus
\* i's liability after the call equals i's liability before the call plus
\* floor(available * bps_i / 10000); every transfer made for i, share or
\* healing, goes to a token account that records i as its owner; and what
\* the call pays to the protocol plus protocol_unclaimed after the call
\* equals protocol_unclaimed before the call plus the fee, so that no
\* recipient's liability reaches another recipient or the protocol.  Summed
\* over two successive calls with a deposit between them, the payments to i
\* plus i's final liability equal i's initial liability plus the shares of
\* both calls.
EntitlementConservation ==
    LET n == split_config.recipient_count
        owed(r, i) == PaidTo(r.transfers, i) + Liability(r.config, i)
    IN
    /\ \A executor \in Executors, now \in Times :
         \A remaining_accounts \in ExecuteAccounts(split_config, protocol_config) :
           LET r == Call(remaining_accounts, executor, now) IN
           r.err = Ok =>
             /\ \A i \in 1..n : owed(r, i) = Liability(split_config, i) + Share(i)
             /\ \A k \in 1..Len(r.transfers) :
                  r.transfers[k].kind \in {"share", "heal"} =>
                    /\ r.transfers[k].idx \in 1..n
                    /\ r.transfers[k].tok_owner
                         = split_config.recipients[r.transfers[k].idx].address
             /\ \A i \in 1..n :
                  SentTo(r.transfers, {"heal"}, i) \in {0, Liability(split_config, i)}
             /\ Sent(r.transfers, {"fee", "protocol_heal"}) + r.config.protocol_unclaimed
                  = split_config.protocol_unclaimed + Fee
    /\ \A now \in Times, deposit \in 0..MaxDeposit :
         \A first \in FollowUpAccounts(split_config, protocol_config) :
           LET r == Call(first, UPGRADE_AUTHORITY, now)
               balance == VaultAfter(vault_amount, r.transfers) + deposit
           IN  (r.err = Ok /\ balance <= U64_MAX) =>
                 \A second \in FollowUpAccounts(r.config, protocol_config) :
                   LET q == execute_split(r.config, balance, protocol_config, second,
                                          UPGRADE_AUTHORITY, now)
                   IN  q.err = Ok =>
                         \A i \in 1..n :
                           PaidTo(r.transfers, i) + PaidTo(q.transfers, i)
                             + Liability(q.config, i)
                           = Liability(split_config, i) + Share(i)
                             + ShareOf(r.config, balance, i)

\* two recipients, the first with a liability, and a fresh deposit: a call
\* with the first recipient's account still missing pays the second
\* recipient's share and adds the first's share to its liability; a call
\* with every account in place pays the first recipient the liability and
\* the share
EntitlementConservationWitness ==
    /\ split_config.initialized
    /\ split_config.recipient_count = 2
    /\ Liability(split_config, 1) > 0
    /\ Share(1) > 0 /\ Share(2) > 0
    /\ \E now \in Times :
         LET present == Uniform(split_config, protocol_config, 3, FALSE)
             missing == Uniform(split_config, protocol_config, 3, TRUE)
             p == Call([present EXCEPT ![1] = missing[1]], UPGRADE_AUTHORITY, now)
             q == Call(present, UPGRADE_AUTHORITY, now)
         IN  /\ p.err = Ok
             /\ PaidTo(p.transfers, 1) = 0
             /\ PaidTo(p.transfers, 2) = Share(2)
             /\ Liability(p.config, 1) = Liability(split_config, 1) + Share(1)
             /\ q.err = Ok
             /\ PaidTo(q.transfers, 1) = Liability(split_config, 1) + Share(1)
             /\ Liability(q.config, 1) = 0

(***************************************************************************)
(* Bounds of the protocol fee                                              *)
(***************************************************************************)
\* the protocol fee of a successful call with result r on `config`: what was
\* paid to the protocol or added to protocol_unclaimed beyond the liability
\* the record carried
FeeOf(config, r) ==
    Sent(r.transfers, {"fee", "protocol_heal"}) + r.config.protocol_unclaimed
        - config.protocol_unclaimed
\* ceil(available / 100) <= fee < available / 100 + count, in integers
FeeWithinBounds(fee, available, count) ==
    /\ 100 * fee >= available
    /\ 100 * fee < available + 100 * count
    /\ fee <= available
\* records with 3, 7 and MAX_RECIPIENTS recipients that share 9900 evenly
FeeRecords ==
    { create_split_config(SplitConfigZero, UPGRADE_AUTHORITY, UPGRADE_AUTHORITY, UNIQUE_ID,
                          MINT, EvenTable(n), ValidAccounts(EvenTable(n), MINT)).config :
        n \in {3, 7, MAX_RECIPIENTS} }

\* C37 (protocol fee bounds): no execute_split call fails with
\* MathUnderflow, and for every call that succeeds the protocol fee
\* (transferred or accrued) satisfies ceil(available / 100) <= fee <
\* available / 100 + recipient_count and fee <= available; this for the
\* record of the state with every list of accounts, and for records of 3, 7
\* and 20 recipients holding the state's vault balance, with every account
\* existing and with every account missing.
ProtocolFeeBounds ==
    /\ \A executor \in Executors, now \in Times :
         \A remaining_accounts \in ExecuteAccounts(split_config, protocol_config) :
           LET r == Call(remaining_accounts, executor, now) IN
           /\ r.err # "MathUnderflow"
           /\ r.err = Ok =>
                /\ FeeOf(split_config, r) = Fee
                /\ FeeWithinBounds(FeeOf(split_config, r), AvailableAtStart,
                                   split_config.recipient_count)
    /\ \A config \in FeeRecords, empty \in BOOLEAN, now \in Times :
         LET n == config.recipient_count
             r == execute_split(config, vault_amount, protocol_config,
                                Uniform(config, protocol_config, n + 1, empty),
                                UPGRADE_AUTHORITY, now)
         IN  /\ r.err = Ok
             /\ FeeWithinBounds(FeeOf(config, r), vault_amount, n)
             /\ FeeOf(config, r) + SumAmounts(SelectSeq(r.transfers,
                                                LAMBDA t : t.kind = "share"), 1)
                  + Liabilities(r.config, n) = vault_amount

\* available is 51 and the shares are 5000 and 4900: the recipients get 25
\* and 24 and the fee is 2, one percent and more than a unit of dust; and
\* with 20 recipients a vault balance of 51 leaves a fee of 11
ProtocolFeeBoundsWitness ==
    /\ AvailableAtStart = 51
    /\ vault_amount = 51
    /\ split_config.recipient_count = 2
    /\ split_config.recipients[1].percentage_bps = 5000
    /\ \E now \in Times :
         LET r == Call(Uniform(split_config, protocol_config, 3, FALSE), UPGRADE_AUTHORITY, now)
         IN  /\ r.err = Ok
             /\ FeeOf(split_config, r) = 2
             /\ Sent(r.transfers, {"fee"}) = 2
    /\ \E config \in FeeRecords, now \in Times :
         /\ config.recipient_count = MAX_RECIPIENTS
         /\ FeeOf(config, execute_split(config, vault_amount, protocol_config,
                                        Uniform(config, protocol_config, MAX_RECIPIENTS + 1, TRUE),
                                        UPGRADE_AUTHORITY, now)) = 11

(***************************************************************************)
(* Destination of the protocol's funds                                     *)
(***************************************************************************)
\* every transfer of protocol funds in `transfers` goes to a token account
\* that records `fee_wallet` as owner and `mint` as asset
ProtocolPaidTo(transfers, fee_wallet, mint) ==
    \A k \in 1..Len(transfers) :
        transfers[k].kind \in {"fee", "protocol_heal"} =>
            /\ transfers[k].tok_owner = fee_wallet
            /\ transfers[k].tok_mint = mint

\* C38 (protocol funds follow the fee wallet): in every state, every
\* transfer of protocol funds an execute_split call makes, the fee of the
\* call and a healed protocol_unclaimed alike, goes to a token account whose
\* recorded owner is the fee_wallet ProtocolConfig holds at that call and
\* whose recorded asset is the mint of the record; a fee is paid to the fee
\* wallet's associated token account only, while with nothing to split a
\* protocol liability is healed to any unfrozen token account of the fee
\* wallet, the associated one or not.  And after every step that changes the
\* fee wallet while a protocol liability is recorded, a call with the new
\* wallet's account pays that liability in full to the new wallet, and a
\* call with the previous wallet's account pays the protocol nothing.
ProtocolFundsFollowFeeWallet ==
    /\ [](\A executor \in Executors, now \in Times :
            LET n == split_config.recipient_count
                mint == split_config.mint
                wallet == protocol_config.fee_wallet
            IN
            /\ \A remaining_accounts \in ExecuteAccounts(split_config, protocol_config) :
                 LET r == Call(remaining_accounts, executor, now) IN
                 /\ ProtocolPaidTo(r.transfers, wallet, mint)
                 /\ \A k \in 1..Len(r.transfers) :
                      r.transfers[k].kind = "fee" => r.transfers[k].key = ATA(wallet, mint)
            /\ ( /\ split_config.initialized /\ protocol_config.initialized
                 /\ split_config.protocol_unclaimed > 0
                 /\ AvailableAtStart = 0 ) =>
                 LET other == TokenAccount(NonAta(wallet), wallet, mint, FALSE, TRUE)
                     r == Call([Uniform(split_config, protocol_config, n + 1, TRUE)
                                   EXCEPT ![n + 1] = other], executor, now)
                 IN  /\ r.err = Ok
                     /\ Sent(r.transfers, {"protocol_heal"}) = split_config.protocol_unclaimed
                     /\ r.config.protocol_unclaimed = 0)
    /\ [][ ( /\ protocol_config.initialized
             /\ protocol_config'.fee_wallet # protocol_config.fee_wallet
             /\ split_config'.initialized
             /\ split_config'.protocol_unclaimed > 0 ) =>
           \A now \in Times :
             LET n == split_config'.recipient_count
                 mint == split_config'.mint
                 old == protocol_config.fee_wallet
                 new == protocol_config'.fee_wallet
                 accounts == Uniform(split_config', protocol_config', n + 1, FALSE)
                 to_new == execute_split(split_config', vault_amount', protocol_config',
                                         accounts, UPGRADE_AUTHORITY, now)
                 to_old == execute_split(split_config', vault_amount', protocol_config',
                                         [accounts EXCEPT ![n + 1] =
                                             TokenAccount(ATA(old, mint), old, mint, FALSE, TRUE)],
                                         UPGRADE_AUTHORITY, now)
             IN  /\ to_new.err = Ok
                 /\ Sent(to_new.transfers, {"protocol_heal"}) = split_config'.protocol_unclaimed
                 /\ ProtocolPaidTo(to_new.transfers, new, mint)
                 /\ to_new.config.protocol_unclaimed = 0
                 /\ Sent(to_old.transfers, {"fee", "protocol_heal"}) = 0
                 /\ to_old.err = Ok =>
                      to_old.config.protocol_unclaimed >= split_config'.protocol_unclaimed
         ]_vars

\* a protocol liability is recorded and there is nothing to split: the
\* liability is healed to a token account of the fee wallet that is not its
\* associated one, while the other wallet's associated account, valid under
\* another fee wallet, leaves it in place; after the authority makes that
\* other wallet the fee wallet, the same account receives the liability
ProtocolFundsFollowFeeWalletWitness ==
    /\ split_config.initialized /\ protocol_config.initialized
    /\ split_config.protocol_unclaimed > 0
    /\ AvailableAtStart = 0
    /\ \E now \in Times :
         LET n == split_config.recipient_count
             mint == split_config.mint
             wallet == protocol_config.fee_wallet
             stranger == OtherWallet(wallet)
             missing == Uniform(split_config, protocol_config, n + 1, TRUE)
             theirs == [missing EXCEPT ![n + 1] =
                           TokenAccount(ATA(stranger, mint), stranger, mint, FALSE, TRUE)]
             p == Call([missing EXCEPT ![n + 1] =
                           TokenAccount(NonAta(wallet), wallet, mint, FALSE, TRUE)],
                       UPGRADE_AUTHORITY, now)
             q == Call(theirs, UPGRADE_AUTHORITY, now)
             u == update_protocol_config(protocol_config, protocol_config.authority, stranger)
             h == execute_split(split_config, vault_amount, u.pc, theirs, UPGRADE_AUTHORITY, now)
         IN  /\ p.err = Ok
             /\ Sent(p.transfers, {"protocol_heal"}) = split_config.protocol_unclaimed
             /\ q.err = Ok
             /\ Sent(q.transfers, {"protocol_heal"}) = 0
             /\ q.config.protocol_unclaimed = split_config.protocol_unclaimed
             /\ u.err = Ok
             /\ h.err = Ok
             /\ Sent(h.transfers, {"protocol_heal"}) = split_config.protocol_unclaimed
             /\ ProtocolPaidTo(h.transfers, stranger, mint)

(***************************************************************************)
(* Frame of execute_split                                                  *)
(***************************************************************************)
\* record `after` differs from `before` in unclaimed_amounts,
\* protocol_unclaimed and last_activity at most
SameButLiabilities(before, after) ==
    after = [before EXCEPT !.unclaimed_amounts = after.unclaimed_amounts,
                           !.protocol_unclaimed = after.protocol_unclaimed,
                           !.last_activity = after.last_activity]

\* C39 (frame of execute_split): a successful call leaves the recipient
\* table, recipient_count, authority, mint, vault, unique_id, bump and
\* rent_payer of the record as they were, sets last_activity to the time of
\* the call, leaves every unclaimed entry at or beyond recipient_count as it
\* was, and changes the entry of an active recipient only when that
\* recipient's share was held in the call (the account was missing or frozen
\* and the amount grew by the share) or its liability was healed (the amount
\* was transferred and is now 0); a failed call leaves the record as it was.
\* And every step that takes tokens out of the vault leaves ProtocolConfig
\* unchanged and the record changed in its liabilities and last_activity
\* only.
ExecuteFrame ==
    /\ [](\A executor \in Executors, now \in Times :
          \A remaining_accounts \in ExecuteAccounts(split_config, protocol_config) :
            LET r == Call(remaining_accounts, executor, now)
                n == split_config.recipient_count
                before(i) == split_config.unclaimed_amounts[i]
                after(i) == r.config.unclaimed_amounts[i]
            IN  /\ r.err # Ok => r.config = split_config
                /\ r.err = Ok =>
                     /\ SameButLiabilities(split_config, r.config)
                     /\ r.config.last_activity = now
                     /\ \A i \in 1..MAX_RECIPIENTS : i > n => after(i) = before(i)
                     /\ \A i \in 1..n :
                          after(i) # before(i) =>
                            \/ /\ Share(i) > 0
                               /\ Unavailable(remaining_accounts[i])
                               /\ after(i).amount = before(i).amount + Share(i)
                               /\ SentTo(r.transfers, {"share", "heal"}, i) = 0
                            \/ /\ before(i).amount > 0
                               /\ SentTo(r.transfers, {"heal"}, i) = before(i).amount
                               /\ after(i) = [before(i) EXCEPT !.amount = 0])
    /\ [][ vault_amount' < vault_amount =>
             /\ protocol_config' = protocol_config
             /\ SameButLiabilities(split_config, split_config') ]_vars

\* two recipients, the first with a liability, and a fresh deposit: with the
\* first recipient's account in place and the second's missing, the call
\* heals the first entry, holds the second recipient's share in the second
\* entry and changes nothing else of the record but protocol_unclaimed and
\* last_activity; with both in place the second entry is not touched
ExecuteFrameWitness ==
    /\ split_config.initialized
    /\ split_config.recipient_count = 2
    /\ Liability(split_config, 1) > 0
    /\ Liability(split_config, 2) = 0
    /\ Share(2) > 0
    /\ \E now \in Times :
         LET present == Uniform(split_config, protocol_config, 3, FALSE)
             missing == Uniform(split_config, protocol_config, 3, TRUE)
             p == Call([present EXCEPT ![2] = missing[2]], UPGRADE_AUTHORITY, now)
             q == Call(present, UPGRADE_AUTHORITY, now)
         IN  /\ p.err = Ok
             /\ Liability(p.config, 1) = 0
             /\ Liability(p.config, 2) = Share(2)
             /\ p.config.recipients = split_config.recipients
             /\ p.config.rent_payer = split_config.rent_payer
             /\ q.err = Ok
             /\ q.config.unclaimed_amounts[2] = split_config.unclaimed_amounts[2]
             /\ q.config.unclaimed_amounts[1] # split_config.unclaimed_amounts[1]

====
